---- MODULE Spec2Model ----
(***************************************************************************)
(* Coordination layer of openai_chat: the two lock strategies, the         *)
(* idempotency executor, the Snowflake allocator with its node register,   *)
(* and the RS256 signer / verifier.  Each subsystem has its own variables  *)
(* and its own specification (SpecLock, SpecIdem, SpecSnow, ...); an       *)
(* action of one subsystem leaves the variables of the others unchanged.   *)
(***************************************************************************)
EXTENDS Integers, Sequences, FiniteSets, TLC

\* ------------------------------------------------------------------ bounds
NFastObj == 3        \* RedisSingleLock objects contending for the key
MaxSafeCalls == 2    \* Redlock.lock() calls made in one behaviour
NServers == 3        \* len(settings.REDLOCK_SERVERS)
NCallers == 3        \* execute() calls made for the one (scope, key)
NThreads == 2        \* threads calling next_id() on the one Snowflake instance
MaxClock == 2        \* the clock runs over 0..MaxClock ms after SNOWFLAKE_EPOCH
NProcs == 2          \* hosts (one uniqueKey each) that register for a node slot
RegTtl == 2          \* ticks a slot marker lives after SET ... EX self.ttl
MaxDatacenterId == 1 \* datacenter ids scanned: 0..MaxDatacenterId (31 in the program)
MaxMachineId == 1    \* machine ids scanned: 0..MaxMachineId (31 in the program)
MaxSigns == 2        \* sign() calls made in one behaviour
MaxTicks == 2        \* the JWT clock runs over 0..MaxTicks steps of TimeStep seconds
MaxJti == 4          \* uuid4() values handed out by the token services
MaxTokHours == 1     \* access-token lifetimes the token services are followed over
NSigners == 3        \* concurrent callers of sign() with one (header, payload)
NBuilders == 2       \* concurrent constructions of the verifier
NRegistrants == 2    \* processes that call register() with one uniqueKey
MaxRuns == 2         \* runs (start to restart) of one such process
MaxInstCalls == 3    \* get_snowflake_instance() calls of one thread
MaxTtlCalls == 2     \* execute() calls followed with their TTLs
NMailTasks == 2      \* send_email_async_task messages queued for one biz_key
NTotpCalls == 3      \* verify_and_issue_token() calls made with one challenge_id
NPreCallers == 2     \* clients confirming one registration at the same time
MaxPreCalls == 3     \* confirm requests one client sends, one after the other

\* The absent value of a store key (redis GET -> nil / None).
Nil == <<>>

VARIABLES
    strategy,    \* build_lock(strategy=...): "fast" or "safe"
    \* Lock manager, Fast strategy
    fastStore,   \* value stored under the resource key, or Nil
    fastState,   \* per lock object: "new", "held", "failed", "expired", "released"
    fastLast,    \* the last lock operation: [op, o, was, pre, ret]
    \* Lock manager, Safe strategy
    safeStore,   \* per server: value stored under the resource key, or Nil
    safeObj,     \* per lock object: [pc, k, i, n, lost, err, lock, hval]
    safeState,   \* per lock object: "new", "held", "failed", "expired", "released"
    lockEscaped, \* exceptions that acquire() / release() have let through to the caller
    \* Idempotency executor, one (scope, key)
    idemRec,        \* the record stored under idem:v1:<scope>:<key>
    idemCaller,     \* per execute() call: [pc, retry, action, outcome, out, res, orig]
    idemFuncCalls,  \* how many times func() has been invoked
    idemExpired,    \* the record's TTL has elapsed at least once
    idemFailed,     \* fail() has written FAILED at least once
    \* Snowflake instance
    snowClock,      \* time.time() in ms, counted from SNOWFLAKE_EPOCH
    last_timestamp, \* Snowflake.last_timestamp, counted from SNOWFLAKE_EPOCH
    sequence,       \* Snowflake.sequence
    snowLock,       \* Snowflake._lock: the thread inside next_id(), or 0
    snowPc,         \* where that thread is: "none", "locked", "wait"
    snowLast,       \* the last next_id() outcome: [how, id, prev]
    \* Snowflake node register, one store
    regMarker,      \* slot markers in the store: set of [slot, life]
    regBind,        \* per uniqueKey: the bound slot, or Nil
    regProc,        \* per host process: [pc, pos, node]
    regGuard,       \* per host process, its SnowflakeGuard thread: [pc, pos]
    \* RS256 signer and verifier over one cache store
    jwtNow,          \* int(time.time())
    jwtDebug,        \* settings.DEBUG, the verifier's self.debug
    jwtSignCache,    \* jwt:sign:<hash> entries: set of [key, token, until]
    jwtPayloadCache, \* jwt:verify:payload:<hash> entries: set of [token, text, until]
    jwtIssued,       \* what sign() has returned: set of [token, header, payload]
    jwtSigns,        \* sign() calls made
    jwtLast,         \* the last sign()/verify() call: [op, token, outcome, payload, at, hit, raised, error]
    \* Scoped acquisition of RedisSingleLock objects on one store
    scopeStore,      \* value stored under the resource key, or Nil
    scopeObj,        \* per lock object: [form, pc, acquired, released, exc]
    \* build_lock and the process-wide clients of redis_config
    lockRedisClient, \* _LOCK_REDIS_CLIENT is not None
    redlockInstance, \* _REDLOCK_INSTANCE is not None
    buildLast,       \* the last build_lock call: [op, key, ttl, strategy, outcome, unit, expire, pre]
    \* Token services over the verifier, the signer and the blacklist store
    tokBlacklist,    \* jwt:blacklist<jti> entries: set of [jti, until]
    tokJti,          \* how many jti values uuid4() has handed out
    tokIssued,       \* the pairs issue_tokens() / refresh_access_token() returned
    tokLast,         \* the last service call: [op, token, outcome, jti, exp, typ, at, pair]
    \* Concurrent sign() calls for one (header, payload)
    signCaller,      \* per caller: [pc, out]
    signLock,        \* the caller whose value is stored under the lock key, or 0
    signCache,       \* [token, expired]: the token under the cache key ("" for none); an entry has expired
    signOracle,      \* [signed, raised, lockLost, writeLost]: signatures the oracle returned; the
                     \* oracle raised; a lock key expired under its holder; a cache write failed
    \* Concurrent AzureRS256Verifier constructions for one key name
    pemCaller,       \* per construction: [pc, out, warm, locked]
    pemLock,         \* the caller whose value is stored under the lock key, or 0
    pemCache,        \* a PEM is stored under jwt:verify:pem:<key_name>
    pemOracle,       \* key_client.get_key calls made
    \* register() calls that share one uniqueKey, one store
    nodeMarker,      \* the slots whose marker is in the store
    nodeBind,        \* the slot stored under the bind key, or Nil
    nodeCall,        \* per process: [pc, pos, ret, found, run]
    nodeBound,       \* every value the bind key has held, in order
    nodeOthers,      \* the slots that other uniqueKeys are bound to
    \* get_snowflake_instance() in one process
    instThread,      \* per thread: [pc, ret, calls]
    instLock,        \* _snowflake_lock: the thread inside, or 0
    snowflake_instance, \* _snowflake_instance: 0 for None, else the instance's number
    instAcquired,    \* get_node_ids() calls: [begun, raised, made]
    \* execute() with its ttl_seconds argument, one (scope, key)
    ttlRec,          \* the record under the key: [state, ex], ex the EX seconds it was written with
    ttlCall,         \* the execute() call: [pc, ttl_seconds, ttl, n]
    \* send_email_async_task executions for one biz_key
    mailDone,        \* mail:done:<digest> is in the store
    mailLock,        \* value of mail:lock:<digest>: the holder's token, or Nil
    mailTask,        \* per message: [pc, ret, retries]
    mailSent,        \* successful send_email_sync calls: [all, marked]
    \* verify_and_issue_token() calls with one challenge_id
    totpPending,     \* login:pending:<challenge_id>: "unset", "set" or "gone"
    totpCall,        \* per call: [pc, outcome]
    totpIssued,      \* issue_tokens() calls made for the challenge
    \* _validate_and_get_cached_info() calls for one email
    prePresent,      \* the prereg record is in the store
    preErr,          \* the error counter key's value, 0 when absent
    preCall,         \* per caller: [pc, outcome, n]
    preCompared      \* wrong guesses compared with verify_code_hash since the last right one

fastVars == <<fastStore, fastState, fastLast>>
safeVars == <<safeStore, safeObj, safeState>>

lockVars == <<strategy, fastVars, safeVars, lockEscaped>>

idemVars == <<idemRec, idemCaller, idemFuncCalls, idemExpired, idemFailed>>

snowVars == <<snowClock, last_timestamp, sequence, snowLock, snowPc, snowLast>>

regVars == <<regMarker, regBind, regProc, regGuard>>

jwtVars == <<jwtNow, jwtDebug, jwtSignCache, jwtPayloadCache, jwtIssued, jwtSigns, jwtLast>>

scopeVars == <<scopeStore, scopeObj>>

buildVars == <<lockRedisClient, redlockInstance, buildLast>>

tokVars == <<tokBlacklist, tokJti, tokIssued, tokLast>>

stampVars == <<signCaller, signLock, signCache, signOracle>>

pemVars == <<pemCaller, pemLock, pemCache, pemOracle>>

nodeVars == <<nodeMarker, nodeBind, nodeCall, nodeBound, nodeOthers>>

instVars == <<instThread, instLock, snowflake_instance, instAcquired>>

ttlVars == <<ttlRec, ttlCall>>

mailVars == <<mailDone, mailLock, mailTask, mailSent>>

totpVars == <<totpPending, totpCall, totpIssued>>

preVars == <<prePresent, preErr, preCall, preCompared>>

lastVars == <<ttlVars, mailVars, totpVars, preVars>>

moreVars == <<tokVars, stampVars, pemVars, nodeVars, instVars, lastVars>>

vars == <<lockVars, idemVars, snowVars, regVars, jwtVars, scopeVars, buildVars, moreVars>>

\* an action of one strategy runs under that strategy and leaves the rest alone
FastOnly ==
    strategy = "fast" /\ UNCHANGED <<strategy, safeVars, idemVars, snowVars, regVars, jwtVars, scopeVars, buildVars, moreVars>>
SafeOnly ==
    strategy = "safe" /\ UNCHANGED <<strategy, fastVars, idemVars, snowVars, regVars, jwtVars, scopeVars, buildVars, moreVars>>
IdemOnly == UNCHANGED <<lockVars, snowVars, regVars, jwtVars, scopeVars, buildVars, moreVars>>
SnowOnly == UNCHANGED <<lockVars, idemVars, regVars, jwtVars, scopeVars, buildVars, moreVars>>
RegOnly == UNCHANGED <<lockVars, idemVars, snowVars, jwtVars, scopeVars, buildVars, moreVars>>
JwtOnly == UNCHANGED <<lockVars, idemVars, snowVars, regVars, scopeVars, buildVars, moreVars>>
ScopeOnly == UNCHANGED <<lockVars, idemVars, snowVars, regVars, jwtVars, buildVars, moreVars>>
BuildOnly == UNCHANGED <<lockVars, idemVars, snowVars, regVars, jwtVars, scopeVars, moreVars>>
\* the subsystems that the token services, the concurrent callers of sign(),
\* the verifier constructions, register() and get_snowflake_instance() leave alone
BaseOnly == UNCHANGED <<lockVars, idemVars, snowVars, regVars, scopeVars, buildVars, lastVars>>
TokOnly == BaseOnly /\ UNCHANGED <<jwtIssued, jwtSigns, jwtLast, stampVars, pemVars, nodeVars, instVars>>
StampOnly == BaseOnly /\ UNCHANGED <<jwtVars, tokVars, pemVars, nodeVars, instVars>>
PemOnly == BaseOnly /\ UNCHANGED <<jwtVars, tokVars, stampVars, nodeVars, instVars>>
NodeOnly == BaseOnly /\ UNCHANGED <<jwtVars, tokVars, stampVars, pemVars, instVars, nodeOthers>>
InstOnly == BaseOnly /\ UNCHANGED <<jwtVars, tokVars, stampVars, pemVars, nodeVars>>
\* the subsystems that the TTLs of execute(), the mail task, the TOTP login
\* step and the registration confirm leave alone
OldOnly ==
    UNCHANGED <<lockVars, idemVars, snowVars, regVars, jwtVars, scopeVars, buildVars,
                tokVars, stampVars, pemVars, nodeVars, instVars>>
TtlOnly == OldOnly /\ UNCHANGED <<mailVars, totpVars, preVars>>
MailOnly == OldOnly /\ UNCHANGED <<ttlVars, totpVars, preVars>>
TotpOnly == OldOnly /\ UNCHANGED <<ttlVars, mailVars, preVars>>
PreOnly == OldOnly /\ UNCHANGED <<ttlVars, mailVars, totpVars>>

(***************************************************************************)
(* Lock manager, Fast strategy: RedisSingleLock on the one lock store.     *)
(***************************************************************************)

FastObjs == 1..NFastObj

\* self.token = str(uuid.uuid4()): one token per lock object
Token(o) == <<"uuid", o>>

\* SET key val EX ttl without NX: always written, always OK
SetPlain(store, val) == [store |-> val, ok |-> TRUE]

\* redis SET key val NX EX ttl: the value of the key afterwards, and the reply
SetNX(store, val) ==
    IF store = Nil THEN [store |-> val, ok |-> TRUE] ELSE [store |-> store, ok |-> FALSE]

\* DEL key, unconditionally
ReleaseAlways(store, token) == Nil

\* release script: if redis.call('get', KEYS[1]) == ARGV[1] then del
ReleaseScript(store, token) == IF store = token THEN Nil ELSE store

\* a handler that logs and raises the exception again
AcquireReraise(e) == [ret |-> FALSE, raised |-> {e}]

\* acquire(): except Exception as e: logger.error(...); return False
AcquireExcept(e) == [ret |-> FALSE, raised |-> {}]

\* release(): except Exception as e: logger.error(...), and nothing more
ReleaseExcept(e) == {}

FastHeld == {o \in FastObjs : fastState[o] = "held"}

FastAcquire(o) ==
    LET set == SetNX(fastStore, Token(o))
        result == set.ok   \* return result is True
    IN  /\ fastStore' = set.store
        /\ fastState' = [fastState EXCEPT ![o] =
                            IF result THEN "held"
                            ELSE IF @ = "held" THEN "held" ELSE "failed"]
        /\ fastLast' = [op |-> "acquire", o |-> o, was |-> fastState[o],
                        pre |-> fastStore, ret |-> result]
        /\ UNCHANGED lockEscaped
    /\ FastOnly

\* redis.set raises (timeout, connection error): acquire returns False; the
\* server may or may not have applied the SET before the error was seen.
FastAcquireError(o) ==
    /\ \E applied \in BOOLEAN :
          fastStore' = IF applied THEN SetNX(fastStore, Token(o)).store ELSE fastStore
    /\ fastState' = [fastState EXCEPT ![o] = IF @ = "held" THEN "held" ELSE "failed"]
    /\ fastLast' = [op |-> "acquire_error", o |-> o, was |-> fastState[o],
                    pre |-> fastStore, ret |-> AcquireExcept("RedisError").ret]
    /\ lockEscaped' = lockEscaped \cup AcquireExcept("RedisError").raised
    /\ FastOnly

FastRelease(o) ==
    /\ fastStore' = ReleaseScript(fastStore, Token(o))
    /\ fastState' = [fastState EXCEPT ![o] = IF @ = "held" THEN "released" ELSE @]
    /\ fastLast' = [op |-> "release", o |-> o, was |-> fastState[o],
                    pre |-> fastStore, ret |-> FALSE]
    /\ UNCHANGED lockEscaped
    /\ FastOnly

\* redis.eval raises: logged and swallowed, the key is left to its TTL
FastReleaseError(o) ==
    /\ fastState[o] = "held"
    /\ fastStore' = fastStore
    /\ fastState' = [fastState EXCEPT ![o] = "released"]
    /\ fastLast' = [op |-> "release_error", o |-> o, was |-> fastState[o],
                    pre |-> fastStore, ret |-> FALSE]
    /\ lockEscaped' = lockEscaped \cup ReleaseExcept("RedisError")
    /\ FastOnly

\* a key whose ttl never runs out
KeyPersists(store) == store

\* SET ... NX EX / PX ttl: the key is removed by the server when the ttl elapses
KeyExpired(store) == Nil

\* the key's EX ttl elapses
FastExpire ==
    /\ fastStore # Nil
    /\ fastStore' = KeyExpired(fastStore)
    /\ fastState' = [o \in FastObjs |->
                        IF fastState[o] = "held" /\ fastStore = Token(o)
                        THEN "expired" ELSE fastState[o]]
    /\ fastLast' = [op |-> "expire", o |-> 0, was |-> "none",
                    pre |-> fastStore, ret |-> FALSE]
    /\ UNCHANGED lockEscaped
    /\ FastOnly

FastInit ==
    /\ lockEscaped = {}
    /\ fastStore = Nil
    /\ fastState = [o \in FastObjs |-> "new"]
    /\ fastLast = [op |-> "init", o |-> 0, was |-> "none", pre |-> Nil, ret |-> FALSE]

FastNext ==
    \/ \E o \in FastObjs : FastAcquire(o)
    \/ \E o \in FastObjs : FastAcquireError(o)
    \/ \E o \in FastObjs : FastRelease(o)
    \/ \E o \in FastObjs : FastReleaseError(o)
    \/ FastExpire

(***************************************************************************)
(* Lock manager, Safe strategy: RedLockWrapper over Redlock(servers).      *)
(* Redlock.lock sets the key with a fresh value on every server in turn,   *)
(* counts the successes, and either returns a Lock (quorum reached and     *)
(* validity left) or unlocks every server and retries / returns False.     *)
(***************************************************************************)
\* two owners contend under the Safe strategy
SafeObjs == {"a", "b"}
Servers == 1..NServers

\* Redlock.get_unique_id(): a fresh value for every lock() call
Val(o, k) == <<"val", o, k>>

\* a quorum that a minority already satisfies
QuorumMinority(n) == n \div 2

\* self.quorum = (len(connection_list) // 2) + 1
Quorum(n) == (n \div 2) + 1

\* the object is outside lock() / unlock(): the locals of the round are gone
Idle(r) == [r EXCEPT !.pc = "idle", !.i = 1, !.n = 0, !.lost = FALSE, !.err = FALSE]

\* lock() calls made so far, over all objects
SafeCalls == safeObj["a"].k + safeObj["b"].k

SafeHeld == {o \in SafeObjs : safeState[o] = "held"}

\* RedLockWrapper.acquire -> self.redlock.lock(key, ttl): val = get_unique_id()
SafeAcquireBegin(o) ==
    /\ safeObj[o].pc = "idle"
    /\ SafeCalls < MaxSafeCalls
    /\ safeObj' = [safeObj EXCEPT ![o] =
          [@ EXCEPT !.pc = "locking", !.k = @ + 1, !.i = 1, !.n = 0,
                    !.lost = FALSE, !.err = FALSE]]
    /\ UNCHANGED <<safeStore, safeState>>
    /\ UNCHANGED lockEscaped
    /\ SafeOnly

\* lock_instance(server, resource, val, ttl): SET resource val NX PX ttl;
\* a RedisError of the server is collected and the server is not counted.
SafeLockInstance(o) ==
    /\ safeObj[o].pc = "locking"
    /\ safeObj[o].i <= NServers
    /\ LET s == safeObj[o].i
           v == Val(o, safeObj[o].k)
           set == SetNX(safeStore[s], v)
       IN \/ /\ safeStore' = [safeStore EXCEPT ![s] = set.store]
             /\ safeObj' = [safeObj EXCEPT ![o] =
                   [@ EXCEPT !.i = s + 1, !.n = IF set.ok THEN @ + 1 ELSE @]]
          \/ /\ safeStore' = safeStore
             /\ safeObj' = [safeObj EXCEPT ![o] = [@ EXCEPT !.i = s + 1, !.err = TRUE]]
    /\ UNCHANGED safeState
    /\ UNCHANGED lockEscaped
    /\ SafeOnly

\* after the last server: validity = ttl - elapsed - drift.  A key of this
\* round that has already expired means elapsed >= ttl, so validity <= 0;
\* otherwise the validity may or may not be positive.
SafeAcquireDecide(o) ==
    /\ safeObj[o].pc = "locking"
    /\ safeObj[o].i > NServers
    /\ \E validity_positive \in BOOLEAN :
          /\ safeObj[o].lost => ~validity_positive
          /\ IF validity_positive /\ safeObj[o].n >= Quorum(NServers)
             THEN IF safeObj[o].err
                  THEN \* raise MultipleRedlockException: acquire() logs and
                       \* returns False, self._lock is left as it was
                       /\ safeObj' = [safeObj EXCEPT ![o] = Idle(@)]
                       /\ safeState' = [safeState EXCEPT ![o] =
                                           IF @ = "held" THEN @ ELSE "failed"]
                       /\ lockEscaped' = lockEscaped \cup
                                            AcquireExcept("MultipleRedlockException").raised
                  ELSE \* return Lock(validity, resource, val): acquire() -> True
                       /\ safeObj' = [safeObj EXCEPT ![o] =
                             [Idle(@) EXCEPT !.lock = Val(o, safeObj[o].k),
                                             !.hval = Val(o, safeObj[o].k)]]
                       /\ safeState' = [safeState EXCEPT ![o] = "held"]
                       /\ UNCHANGED lockEscaped
             ELSE /\ safeObj' = [safeObj EXCEPT ![o] = [@ EXCEPT !.pc = "unlocking", !.i = 1]]
                  /\ safeState' = safeState
                  /\ UNCHANGED lockEscaped
    /\ UNCHANGED safeStore
    /\ SafeOnly

\* unlock_instance(server, resource, val) on every server after a failed round
SafeUnlockInstance(o) ==
    /\ safeObj[o].pc = "unlocking"
    /\ safeObj[o].i <= NServers
    /\ LET s == safeObj[o].i
       IN /\ safeStore' = [safeStore EXCEPT ![s] = ReleaseScript(@, Val(o, safeObj[o].k))]
          /\ safeObj' = [safeObj EXCEPT ![o] = [@ EXCEPT !.i = s + 1]]
    /\ UNCHANGED safeState
    /\ UNCHANGED lockEscaped
    /\ SafeOnly

\* retry += 1; while retry < retry_count: the next round, with the same val
SafeRetry(o) ==
    /\ safeObj[o].pc = "unlocking"
    /\ safeObj[o].i > NServers
    /\ safeObj' = [safeObj EXCEPT ![o] =
          [@ EXCEPT !.pc = "locking", !.i = 1, !.n = 0, !.lost = FALSE, !.err = FALSE]]
    /\ UNCHANGED <<safeStore, safeState>>
    /\ UNCHANGED lockEscaped
    /\ SafeOnly

\* Redlock.lock returns False: acquire() sets self._lock = None, returns False
SafeAcquireFail(o) ==
    /\ safeObj[o].pc = "unlocking"
    /\ safeObj[o].i > NServers
    /\ safeObj' = [safeObj EXCEPT ![o] = [Idle(@) EXCEPT !.lock = Nil]]
    /\ safeState' = [safeState EXCEPT ![o] = IF @ = "held" THEN @ ELSE "failed"]
    /\ UNCHANGED safeStore
    /\ UNCHANGED lockEscaped
    /\ SafeOnly

\* RedLockWrapper.release: if self._lock: self.redlock.unlock(self._lock)
SafeReleaseBegin(o) ==
    /\ safeObj[o].pc = "idle"
    /\ safeObj[o].lock # Nil
    /\ safeObj' = [safeObj EXCEPT ![o] = [@ EXCEPT !.pc = "releasing", !.i = 1, !.hval = Nil]]
    /\ safeState' = [safeState EXCEPT ![o] = IF @ = "held" THEN "released" ELSE @]
    /\ UNCHANGED safeStore
    /\ UNCHANGED lockEscaped
    /\ SafeOnly

\* Redlock.unlock: unlock_instance on every server, a RedisError of a server
\* is collected; after the last server the collected errors are raised as
\* MultipleRedlockException, which release() logs; finally self._lock = None
SafeReleaseInstance(o) ==
    /\ safeObj[o].pc = "releasing"
    /\ LET s == safeObj[o].i
       IN \E error \in BOOLEAN :
          LET err == safeObj[o].err \/ error
          IN /\ safeStore' = IF error THEN safeStore
                             ELSE [safeStore EXCEPT ![s] = ReleaseScript(@, safeObj[o].lock)]
             /\ safeObj' = [safeObj EXCEPT ![o] =
                   IF s = NServers
                   THEN [Idle(@) EXCEPT !.lock = Nil]
                   ELSE [@ EXCEPT !.i = s + 1, !.err = err]]
             /\ lockEscaped' = IF s = NServers /\ err
                               THEN lockEscaped \cup ReleaseExcept("MultipleRedlockException")
                               ELSE lockEscaped
    /\ UNCHANGED safeState
    /\ SafeOnly

\* the PX ttl of the key elapses on one server
SafeExpire(s) ==
    /\ safeStore[s] # Nil
    /\ safeStore' = [safeStore EXCEPT ![s] = KeyExpired(@)]
    /\ safeState' = [o \in SafeObjs |->
          IF safeState[o] = "held" /\ safeStore[s] = safeObj[o].hval
          THEN "expired" ELSE safeState[o]]
    /\ safeObj' = [o \in SafeObjs |->
          IF safeObj[o].pc = "locking" /\ safeStore[s] = Val(o, safeObj[o].k)
          THEN [safeObj[o] EXCEPT !.lost = TRUE]
          ELSE IF safeState[o] = "held" /\ safeStore[s] = safeObj[o].hval
          THEN [safeObj[o] EXCEPT !.hval = Nil]
          ELSE safeObj[o]]
    /\ UNCHANGED lockEscaped
    /\ SafeOnly

SafeInit ==
    /\ safeStore = [s \in Servers |-> Nil]
    /\ safeObj = [o \in SafeObjs |->
          [pc |-> "idle", k |-> 0, i |-> 1, n |-> 0, lost |-> FALSE, err |-> FALSE,
           lock |-> Nil, hval |-> Nil]]
    /\ safeState = [o \in SafeObjs |-> "new"]

SafeNext ==
    \/ \E o \in SafeObjs : SafeAcquireBegin(o)
    \/ \E o \in SafeObjs : SafeLockInstance(o)
    \/ \E o \in SafeObjs : SafeAcquireDecide(o)
    \/ \E o \in SafeObjs : SafeUnlockInstance(o)
    \/ \E o \in SafeObjs : SafeRetry(o)
    \/ \E o \in SafeObjs : SafeAcquireFail(o)
    \/ \E o \in SafeObjs : SafeReleaseBegin(o)
    \/ \E o \in SafeObjs : SafeReleaseInstance(o)
    \/ \E s \in Servers : SafeExpire(s)

LockNext == FastNext \/ SafeNext

\* one Safe owner that locks, releases (with or without errors of the servers)
\* or never releases, while the ttl of its keys runs
SafeLeftNext ==
    \/ SafeAcquireBegin("a")
    \/ SafeLockInstance("a")
    \/ SafeAcquireDecide("a")
    \/ SafeUnlockInstance("a")
    \/ SafeRetry("a")
    \/ SafeAcquireFail("a")
    \/ SafeReleaseBegin("a")
    \/ SafeReleaseInstance("a")
    \/ \E s \in Servers : SafeExpire(s)

LockLeftNext == FastNext \/ SafeLeftNext

(***************************************************************************)
(* Idempotency executor.  JSON values are trees [t, s, kids]: t is "num",  *)
(* "str", "list", "dict" or "entry" (a key of a dict, s the key, kids the  *)
(* one value).  The record goes to the store as Python's json.dumps text   *)
(* and is read back inside the store by the begin script with cjson.       *)
(***************************************************************************)
Node(t, s, kids) == [t |-> t, s |-> s, kids |-> kids]
NoJson == Node("none", "", <<>>)

\* what func() may return: {"user_id": 7}, {"items": []} and, as the
\* registration confirm does, a user_id that is a Snowflake ID
ResultPlain == Node("dict", "", <<Node("entry", "user_id", <<Node("num", "7", <<>>)>>)>>)
ResultEmptyList == Node("dict", "", <<Node("entry", "items", <<Node("list", "", <<>>)>>)>>)
ResultSnowflake ==
    Node("dict", "", <<Node("entry", "user_id", <<Node("num", "7204512345678901248", <<>>)>>)>>)
Results == {ResultPlain, ResultEmptyList, ResultSnowflake}

\* Python json.dumps / json.loads of a dict of JSON-native values
JsonDumps(v) == [text |-> v]
JsonLoads(t) == t.text

\* cjson.decode: JSON arrays and objects both become Lua tables; an empty
\* array and an empty object are the same empty table
RECURSIVE CjsonDecode(_)
CjsonDecode(v) ==
    IF v.t \in {"list", "dict"}
    THEN IF v.kids = <<>>
         THEN Node("table_empty", "", <<>>)
         ELSE Node(IF v.t = "list" THEN "table_array" ELSE "table_map", "",
                   [i \in 1..Len(v.kids) |-> CjsonDecode(v.kids[i])])
    ELSE Node(v.t, v.s, [i \in 1..Len(v.kids) |-> CjsonDecode(v.kids[i])])

\* cjson.encode writes a number with 14 significant digits (%.14g); of the
\* numbers of Results only the Snowflake ID has more
CjsonNumber(s) == IF s = "7204512345678901248" THEN "7.2045123456789e+18" ELSE s

\* cjson.encode: a table with array part is an array, any other table
\* (the empty one too) is an object
RECURSIVE CjsonEncode(_)
CjsonEncode(l) ==
    IF l.t = "table_array"
    THEN Node("list", "", [i \in 1..Len(l.kids) |-> CjsonEncode(l.kids[i])])
    ELSE IF l.t \in {"table_map", "table_empty"}
    THEN Node("dict", "", [i \in 1..Len(l.kids) |-> CjsonEncode(l.kids[i])])
    ELSE Node(l.t, IF l.t = "num" THEN CjsonNumber(l.s) ELSE l.s,
              [i \in 1..Len(l.kids) |-> CjsonEncode(l.kids[i])])

Callers == 1..NCallers

Absent == [state |-> "ABSENT", result |-> NoJson]
Record(state, result) == [state |-> state, result |-> result]

\* a begin script that takes a PENDING record for an absent one
LuaBeginRace(rec) ==
    IF rec.state \in {"ABSENT", "PENDING"}
    THEN [rec |-> Record("PENDING", NoJson), action |-> "NEW", cached |-> NoJson]
    ELSE [rec |-> rec, action |-> "DONE", cached |-> rec.result]

\* _LUA_BEGIN, one atomic script: the record afterwards, the action and the
\* cached result json ("" is NoJson)
LuaBegin(rec) ==
    IF rec.state = "ABSENT"
    THEN [rec |-> Record("PENDING", NoJson), action |-> "NEW", cached |-> NoJson]
    ELSE IF rec.state = "SUCCEEDED"
    THEN [rec |-> rec, action |-> "DONE",
          cached |-> JsonDumps(CjsonEncode(CjsonDecode(JsonLoads(rec.result))))]
    ELSE IF rec.state = "PENDING"
    THEN [rec |-> rec, action |-> "PENDING", cached |-> NoJson]
    ELSE IF rec.state = "FAILED"
    THEN [rec |-> rec, action |-> "FAILED", cached |-> NoJson]
    ELSE [rec |-> rec, action |-> "CONFLICT", cached |-> NoJson]

\* a begin() that raises for no action
BeginNeverRaises(action) == FALSE

\* begin() lines 137-149: IdempotencyKeyConflictError for CONFLICT and for
\* every action that is none of NEW, DONE, PENDING, FAILED
BeginRaises(action) == action \notin {"NEW", "DONE", "PENDING", "FAILED"}

\* execute(): begin(), then the branch on read.action
IdemBegin(c, allow_retry_after_failed) ==
    /\ idemCaller[c].pc = "idle"
    /\ LET read == LuaBegin(idemRec)
       IN /\ idemRec' = read.rec
          /\ idemCaller' = [idemCaller EXCEPT ![c] =
                IF BeginRaises(read.action)
                THEN [@ EXCEPT !.pc = "done", !.action = "CONFLICT", !.outcome = "conflict"]
                ELSE IF read.action = "DONE"
                THEN [@ EXCEPT !.pc = "done", !.action = "DONE", !.outcome = "returned",
                               !.out = IF read.cached # NoJson
                                       THEN JsonLoads(read.cached)
                                       ELSE Node("dict", "", <<>>),
                               !.orig = JsonLoads(idemRec.result)]
                ELSE IF read.action = "PENDING"
                THEN [@ EXCEPT !.pc = "done", !.action = "PENDING", !.outcome = "in_progress"]
                ELSE IF read.action = "FAILED" /\ ~allow_retry_after_failed
                THEN [@ EXCEPT !.pc = "done", !.action = "FAILED", !.outcome = "in_progress"]
                ELSE [@ EXCEPT !.pc = "run", !.action = read.action]]
    /\ UNCHANGED <<idemFuncCalls, idemExpired, idemFailed>>
    /\ IdemOnly

\* result = func(): func is entered
IdemFuncEnter(c) ==
    /\ idemCaller[c].pc = "run"
    /\ idemCaller' = [idemCaller EXCEPT ![c] = [@ EXCEPT !.pc = "infunc"]]
    /\ idemFuncCalls' = idemFuncCalls + 1
    /\ UNCHANGED <<idemRec, idemExpired, idemFailed>>
    /\ IdemOnly

\* func returns the dict r
IdemFuncReturn(c, r) ==
    /\ idemCaller[c].pc = "infunc"
    /\ idemCaller' = [idemCaller EXCEPT ![c] = [@ EXCEPT !.pc = "succeed", !.res = r]]
    /\ UNCHANGED <<idemRec, idemFuncCalls, idemExpired, idemFailed>>
    /\ IdemOnly

\* func raises (or returns no dict: TypeError)
IdemFuncRaise(c) ==
    /\ idemCaller[c].pc = "infunc"
    /\ idemCaller' = [idemCaller EXCEPT ![c] = [@ EXCEPT !.pc = "fail"]]
    /\ UNCHANGED <<idemRec, idemFuncCalls, idemExpired, idemFailed>>
    /\ IdemOnly

\* succeed(): SET key {"state": "SUCCEEDED", "result": result} EX ttl; return result
IdemSucceed(c) ==
    /\ idemCaller[c].pc = "succeed"
    /\ idemRec' = Record("SUCCEEDED", JsonDumps(idemCaller[c].res))
    /\ idemCaller' = [idemCaller EXCEPT ![c] =
          [@ EXCEPT !.pc = "done", !.outcome = "returned", !.out = idemCaller[c].res]]
    /\ UNCHANGED <<idemFuncCalls, idemExpired, idemFailed>>
    /\ IdemOnly

\* succeed() with the store out of reach: redis.set raises after func has
\* returned, execute() lets the error through, the record stays as it is
IdemSucceedError(c) ==
    /\ idemCaller[c].pc = "succeed"
    /\ idemCaller' = [idemCaller EXCEPT ![c] = [@ EXCEPT !.pc = "done", !.outcome = "raised"]]
    /\ UNCHANGED <<idemRec, idemFuncCalls, idemExpired, idemFailed>>
    /\ IdemOnly

\* a fail() that writes the PENDING payload again
FailKeepsPending == Record("PENDING", NoJson)

\* fail() lines 169-174: payload = {"state": "FAILED", "ts": ..., "error": ...}
FailPayload == Record("FAILED", NoJson)

\* fail(): SET key {"state": "FAILED"} EX FAILED_TTL_SECONDS; raise
IdemFail(c) ==
    /\ idemCaller[c].pc = "fail"
    /\ idemRec' = FailPayload
    /\ idemCaller' = [idemCaller EXCEPT ![c] = [@ EXCEPT !.pc = "done", !.outcome = "raised"]]
    /\ idemFailed' = TRUE
    /\ UNCHANGED <<idemFuncCalls, idemExpired>>
    /\ IdemOnly

\* a PENDING record written without a TTL
ExpiredButPending(rec) == IF rec.state = "PENDING" THEN rec ELSE Absent

\* every record is written with EX (_LUA_BEGIN line 73, succeed() line 161,
\* fail() line 175): what is left of it when its TTL has elapsed
Expired(rec) == Absent

\* the EX ttl of the record elapses
IdemExpire ==
    /\ idemRec # Absent
    /\ idemRec' = Expired(idemRec)
    /\ idemExpired' = TRUE
    /\ UNCHANGED <<idemCaller, idemFuncCalls, idemFailed>>
    /\ IdemOnly

\* the executor's process dies after begin() returned NEW and before
\* succeed() or fail() wrote the outcome
IdemCrash(c) ==
    /\ idemCaller[c].pc \in {"run", "infunc", "succeed", "fail"}
    /\ idemCaller[c].action = "NEW"
    /\ idemCaller' = [idemCaller EXCEPT ![c] = [@ EXCEPT !.pc = "crashed"]]
    /\ UNCHANGED <<idemRec, idemFuncCalls, idemExpired, idemFailed>>
    /\ IdemOnly

IdemInit ==
    /\ idemRec = Absent
    /\ idemCaller = [c \in Callers |->
          [pc |-> "idle", action |-> "none", outcome |-> "none",
           out |-> NoJson, res |-> NoJson, orig |-> NoJson]]
    /\ idemFuncCalls = 0
    /\ idemExpired = FALSE
    /\ idemFailed = FALSE

IdemNext ==
    \/ \E c \in Callers, allow \in BOOLEAN : IdemBegin(c, allow)
    \/ \E c \in Callers : IdemFuncEnter(c)
    \/ \E c \in Callers, r \in Results : IdemFuncReturn(c, r)
    \/ \E c \in Callers : IdemFuncRaise(c)
    \/ \E c \in Callers : IdemSucceed(c)
    \/ \E c \in Callers : IdemSucceedError(c)
    \/ \E c \in Callers : IdemFail(c)
    \/ IdemExpire

\* stored values that are no record of the executor: text that is no JSON,
\* a JSON scalar, a JSON object without "state", a state that is none of
\* PENDING, SUCCEEDED, FAILED
Undecodable ==
    {Record(st, NoJson) : st \in {"NOT_JSON", "NOT_TABLE", "NO_STATE", "UNKNOWN_STATE"}}

\* some other client of the store writes the key
IdemForeignSet(v) ==
    /\ idemRec # v
    /\ idemRec' = v
    /\ UNCHANGED <<idemCaller, idemFuncCalls, idemExpired, idemFailed>>
    /\ IdemOnly

\* execute() calls with a func that returns ResultPlain or raises, on a key
\* that another client may overwrite
IdemConflictNext ==
    \/ \E c \in Callers, allow \in BOOLEAN : IdemBegin(c, allow)
    \/ \E c \in Callers : IdemFuncEnter(c)
    \/ \E c \in Callers : IdemFuncReturn(c, ResultPlain)
    \/ \E c \in Callers : IdemFuncRaise(c)
    \/ \E c \in Callers : IdemSucceed(c)
    \/ \E c \in Callers : IdemFail(c)
    \/ \E v \in Undecodable : IdemForeignSet(v)
    \/ IdemExpire

\* execute() calls with a func that returns ResultPlain or raises, and
\* executors that may crash
IdemCrashNext ==
    \/ \E c \in Callers, allow \in BOOLEAN : IdemBegin(c, allow)
    \/ \E c \in Callers : IdemFuncEnter(c)
    \/ \E c \in Callers : IdemFuncReturn(c, ResultPlain)
    \/ \E c \in Callers : IdemFuncRaise(c)
    \/ \E c \in Callers : IdemSucceed(c)
    \/ \E c \in Callers : IdemFail(c)
    \/ \E c \in Callers : IdemCrash(c)
    \/ IdemExpire

(***************************************************************************)
(* Snowflake: one instance, next_id() called from several threads.  Times  *)
(* are counted in ms from SNOWFLAKE_EPOCH, so (ts - self.epoch) is the     *)
(* model's ts; the initial last_timestamp of -1 is below every clock value.*)
(***************************************************************************)
SNOWFLAKE_MAX_SEQUENCE == 4095
SNOWFLAKE_MACHINE_SHIFT == 12
SNOWFLAKE_DATACENTER_SHIFT == 17
SNOWFLAKE_TIMESTAMP_SHIFT == 22

\* Snowflake(datacenter_id, machine_id): the node of this process
datacenter_id == 3
machine_id == 7

Threads == 1..NThreads

\* no ID returned yet (every ID of this node is positive)
NoId == 0 - 1

\* x << n
Shl(x, n) == x * (2 ^ n)

\* x & SNOWFLAKE_MAX_SEQUENCE for x >= 0
AndMaxSequence(x) == x % (SNOWFLAKE_MAX_SEQUENCE + 1)

\* an ID whose machine field is moved one bit down, into the sequence field
SnowflakeIdOverlap(ts, seq) ==
    Shl(ts, SNOWFLAKE_TIMESTAMP_SHIFT) + Shl(datacenter_id, SNOWFLAKE_DATACENTER_SHIFT)
        + Shl(machine_id, SNOWFLAKE_MACHINE_SHIFT - 1) + seq

\* the returned integer; the four fields do not overlap, so | is +
SnowflakeId(ts, seq) ==
    Shl(ts, SNOWFLAKE_TIMESTAMP_SHIFT) + Shl(datacenter_id, SNOWFLAKE_DATACENTER_SHIFT)
        + Shl(machine_id, SNOWFLAKE_MACHINE_SHIFT) + seq

\* a wait that takes the first reading of the clock
WaitFirstReading(ts, last) == TRUE

\* _wait_next_ms: the loop ends on a reading with ts > last_timestamp
WaitOver(ts, last) == ts > last

\* lines 93-105: store ts, assemble the ID, leave the with block
SnowReturn(ts, seq, how) ==
    /\ last_timestamp' = ts
    /\ sequence' = seq
    /\ snowLast' = [how |-> how, id |-> SnowflakeId(ts, seq),
                    prev |-> snowLast.id]
    /\ snowLock' = 0
    /\ snowPc' = "none"

\* with self._lock: one thread enters
SnowEnter(t) ==
    /\ snowLock = 0
    /\ snowLock' = t
    /\ snowPc' = "locked"
    /\ UNCHANGED <<snowClock, last_timestamp, sequence, snowLast>>
    /\ SnowOnly

\* a reading below last_timestamp is adopted and an ID is made from it
SnowClockBackwardsAdopt(t) ==
    /\ snowLock = t /\ snowPc = "locked"
    /\ snowClock < last_timestamp
    /\ SnowReturn(snowClock, 0, "new_ms")
    /\ UNCHANGED snowClock
    /\ SnowOnly

\* ts < self.last_timestamp: RuntimeError, nothing written
SnowClockBackwards(t) ==
    /\ snowLock = t /\ snowPc = "locked"
    /\ snowClock < last_timestamp
    /\ snowLock' = 0
    /\ snowPc' = "none"
    /\ snowLast' = [snowLast EXCEPT !.how = "raised"]
    /\ UNCHANGED <<snowClock, last_timestamp, sequence>>
    /\ SnowOnly

\* ts == self.last_timestamp with a sequence left, or a new millisecond
SnowNextId(t) ==
    /\ snowLock = t /\ snowPc = "locked"
    /\ LET ts == snowClock
       IN \/ /\ ts = last_timestamp
             /\ AndMaxSequence(sequence + 1) # 0
             /\ SnowReturn(ts, AndMaxSequence(sequence + 1), "same_ms")
          \/ /\ ts > last_timestamp
             /\ SnowReturn(ts, 0, "new_ms")
    /\ UNCHANGED snowClock
    /\ SnowOnly

\* ts == self.last_timestamp and the sequence wrapped to 0: _wait_next_ms
SnowSequenceWrap(t) ==
    /\ snowLock = t /\ snowPc = "locked"
    /\ snowClock = last_timestamp
    /\ AndMaxSequence(sequence + 1) = 0
    /\ sequence' = 0
    /\ snowPc' = "wait"
    /\ UNCHANGED <<snowClock, last_timestamp, snowLock, snowLast>>
    /\ SnowOnly

\* one reading of the clock that ends the loop of _wait_next_ms
SnowWaitNextMs(t) ==
    /\ snowLock = t /\ snowPc = "wait"
    /\ WaitOver(snowClock, last_timestamp)
    /\ SnowReturn(snowClock, sequence, "waited")
    /\ UNCHANGED snowClock
    /\ SnowOnly

\* the clock moves on
SnowTick ==
    /\ snowClock < MaxClock
    /\ snowClock' = snowClock + 1
    /\ UNCHANGED <<last_timestamp, sequence, snowLock, snowPc, snowLast>>
    /\ SnowOnly

\* the clock is set back (NTP step, VM migration)
SnowClockSetBack ==
    /\ snowClock > 0
    /\ snowClock' = snowClock - 1
    /\ UNCHANGED <<last_timestamp, sequence, snowLock, snowPc, snowLast>>
    /\ SnowOnly

SnowInit ==
    /\ snowClock = 0
    /\ last_timestamp = -1
    /\ sequence = 0
    /\ snowLock = 0
    /\ snowPc = "none"
    /\ snowLast = [how |-> "none", id |-> NoId, prev |-> NoId]

SnowNext ==
    \/ \E t \in Threads : SnowEnter(t)
    \/ \E t \in Threads : SnowClockBackwards(t)
    \/ \E t \in Threads : SnowNextId(t)
    \/ \E t \in Threads : SnowSequenceWrap(t)
    \/ \E t \in Threads : SnowWaitNextMs(t)
    \/ SnowTick
    \/ SnowClockSetBack

(***************************************************************************)
(* RedisNodeRegister and SnowflakeGuard: hosts with different uniqueKeys   *)
(* register against one store.  A slot is the pair <<datacenter_id,        *)
(* machine_id>>; a marker lives RegTtl ticks unless it is renewed.         *)
(***************************************************************************)
Procs == 1..NProcs

\* MACHINE_UNIQUE_ID of a host
unique_key(p) == <<"host", p>>
UniqueKeys == {unique_key(p) : p \in Procs}

FirstSlot == <<0, 0>>

\* the two nested range() loops: the slot tried after slot s, Nil after the last
NextSlot(s) ==
    IF s[2] < MaxMachineId THEN <<s[1], s[2] + 1>>
    ELSE IF s[1] < MaxDatacenterId THEN <<s[1] + 1, 0>>
    ELSE Nil

\* redis EXISTS reg_key
Marked(s) == \E r \in regMarker : r.slot = s

\* SET reg_key "1" EX ttl (also EXPIRE reg_key ttl on a present key)
SetMarker(s) == {r \in regMarker : r.slot # s} \cup {[slot |-> s, life |-> RegTtl]}

\* register() lines 47-62 at one slot of the scan: the marker set afterwards
\* and where the scan goes: "claimed", "next" or "exhausted"
ScanStep(pos) ==
    IF pos = Nil THEN [marker |-> regMarker, to |-> "exhausted"]
    ELSE IF ~Marked(pos) THEN [marker |-> SetMarker(pos), to |-> "claimed"]
    ELSE [marker |-> regMarker, to |-> "next"]

\* a host process starts: get_node_ids() with an empty process cache
RegStart(p) ==
    /\ regProc[p].pc = "down"
    /\ regProc' = [regProc EXCEPT ![p] = [@ EXCEPT !.pc = "lookup"]]
    /\ UNCHANGED <<regMarker, regBind, regGuard>>
    /\ RegOnly

\* register(): value = redis.get(bind_key)
RegLookup(p) ==
    /\ regProc[p].pc = "lookup"
    /\ regProc' = [regProc EXCEPT ![p] =
          IF regBind[unique_key(p)] # Nil
          THEN [pc |-> "ensure", pos |-> Nil, node |-> regBind[unique_key(p)]]
          ELSE [pc |-> "scan", pos |-> FirstSlot, node |-> Nil]]
    /\ UNCHANGED <<regMarker, regBind, regGuard>>
    /\ RegOnly

\* register(): redis.set(reg_key, "1", nx=True, ex=self.ttl) at the next slot
RegClaim(p) ==
    /\ regProc[p].pc = "scan"
    /\ LET step == ScanStep(regProc[p].pos)
       IN /\ regMarker' = step.marker
          /\ regProc' = [regProc EXCEPT ![p] =
                IF step.to = "claimed" THEN [@ EXCEPT !.pc = "bind"]
                ELSE IF step.to = "next" THEN [@ EXCEPT !.pos = NextSlot(regProc[p].pos)]
                ELSE [@ EXCEPT !.pc = "failed"]]
    /\ UNCHANGED <<regBind, regGuard>>
    /\ RegOnly

\* register(): redis.set(bind_key, "dc:machine"); return datacenter_id, machine_id
RegBind(p) ==
    /\ regProc[p].pc = "bind"
    /\ regBind' = [regBind EXCEPT ![unique_key(p)] = regProc[p].pos]
    /\ regProc' = [regProc EXCEPT ![p] = [pc |-> "ensure", pos |-> Nil, node |-> regProc[p].pos]]
    /\ UNCHANGED <<regMarker, regGuard>>
    /\ RegOnly

\* ensure_snowflake_guard() writes a missing marker of the own slot back,
\* start_snowflake_guard() starts the guard thread
RegEnsure(p) ==
    /\ regProc[p].pc = "ensure"
    /\ regMarker' = IF Marked(regProc[p].node) THEN regMarker ELSE SetMarker(regProc[p].node)
    /\ regProc' = [regProc EXCEPT ![p] = [@ EXCEPT !.pc = "up"]]
    /\ regGuard' = [regGuard EXCEPT ![p] = [pc |-> "loop", pos |-> Nil]]
    /\ UNCHANGED regBind
    /\ RegOnly

\* _guard_loop: redis.expire(self.key, self.ttl) on a present marker
RegGuardRenew(p) ==
    /\ regGuard[p].pc = "loop"
    /\ Marked(regProc[p].node)
    /\ regMarker' = SetMarker(regProc[p].node)
    /\ UNCHANGED <<regBind, regProc, regGuard>>
    /\ RegOnly

\* _guard_loop: the marker is gone, RedisNodeRegister(self.redis).register()
RegGuardMiss(p) ==
    /\ regGuard[p].pc = "loop"
    /\ ~Marked(regProc[p].node)
    /\ regGuard' = [regGuard EXCEPT ![p] = [pc |-> "scan", pos |-> FirstSlot]]
    /\ UNCHANGED <<regMarker, regBind, regProc>>
    /\ RegOnly

\* the guard's register() has no unique_key: it claims the first free slot,
\* binds nothing, and its return value is dropped
RegGuardClaim(p) ==
    /\ regGuard[p].pc = "scan"
    /\ LET step == ScanStep(regGuard[p].pos)
       IN /\ regMarker' = step.marker
          /\ regGuard' = [regGuard EXCEPT ![p] =
                IF step.to = "next" THEN [@ EXCEPT !.pos = NextSlot(regGuard[p].pos)]
                ELSE [pc |-> "loop", pos |-> Nil]]
    /\ UNCHANGED <<regBind, regProc>>
    /\ RegOnly

\* the host process ends; its daemon guard thread ends with it
RegStop(p) ==
    /\ regProc[p].pc # "down"
    /\ regProc' = [regProc EXCEPT ![p] = [pc |-> "down", pos |-> Nil, node |-> Nil]]
    /\ regGuard' = [regGuard EXCEPT ![p] = [pc |-> "off", pos |-> Nil]]
    /\ UNCHANGED <<regMarker, regBind>>
    /\ RegOnly

\* one tick of time: every marker is one tick nearer to its expiry
RegTick ==
    /\ regMarker # {}
    /\ regMarker' = {[r EXCEPT !.life = @ - 1] : r \in {x \in regMarker : x.life > 1}}
    /\ UNCHANGED <<regBind, regProc, regGuard>>
    /\ RegOnly

RegInit ==
    /\ regMarker = {}
    /\ regBind = [k \in UniqueKeys |-> Nil]
    /\ regProc = [p \in Procs |-> [pc |-> "down", pos |-> Nil, node |-> Nil]]
    /\ regGuard = [p \in Procs |-> [pc |-> "off", pos |-> Nil]]

RegNext ==
    \/ \E p \in Procs : RegStart(p)
    \/ \E p \in Procs : RegLookup(p)
    \/ \E p \in Procs : RegClaim(p)
    \/ \E p \in Procs : RegBind(p)
    \/ \E p \in Procs : RegEnsure(p)
    \/ \E p \in Procs : RegGuardRenew(p)
    \/ \E p \in Procs : RegGuardMiss(p)
    \/ \E p \in Procs : RegGuardClaim(p)
    \/ \E p \in Procs : RegStop(p)
    \/ RegTick

(***************************************************************************)
(* AzureRS256Signer.sign and AzureRS256Verifier.verify over one cache      *)
(* store (reachable under SpecJwt; verify() may find it out of reach under  *)
(* SpecJwtOutage).  A dict is a function from its keys to tagged           *)
(* JSON values; a token is the sequence of its '.'-separated segments; a   *)
(* hash (sha256 of the token, of header+payload, of the signing input) is  *)
(* taken as injective and stands for its argument.  The verifier is the    *)
(* object verify() is written for: public_key is the vault key's public    *)
(* half and debug is settings.DEBUG.  (__init__ as written calls           *)
(* _load_or_cache_public_key, which reads self.debug, one line before it   *)
(* assigns self.debug; construction is not part of this specification.)    *)
(***************************************************************************)
DEFAULT_TTL == 30
PAYLOAD_CACHE_TTL == 60

\* the clock is read every TimeStep seconds
TimeStep == DEFAULT_TTL

JInt(i) == [t |-> "int", i |-> i, s |-> ""]
JStr(str) == [t |-> "str", i |-> 0, s |-> str]
JNone == [t |-> "none", i |-> 0, s |-> ""]

\* dict.get(k)
Get(d, k) == IF k \in DOMAIN d THEN d[k] ELSE JNone

\* the order in which the members of the dicts were inserted
KeyOrder == <<"alg", "typ", "sub", "iat", "exp", "iss", "aud", "scope", "jti">>

\* json.dumps(d): the text, member after member (the separators argument
\* changes white space only)
JsonDumpsObject(d) ==
    LET InDict(k) == k \in DOMAIN d
        ks == SelectSeq(KeyOrder, InDict)
    IN [i \in 1..Len(ks) |-> <<ks[i], d[ks[i]]>>]

\* json.loads(text) of an object text
JsonLoadsObject(text) ==
    [k \in {text[i][1] : i \in 1..Len(text)} |->
        text[CHOOSE i \in 1..Len(text) : text[i][1] = k][2]]

\* base64.urlsafe_b64encode(data).rstrip(b'=')
base64url_encode(data) == [b64 |-> data, padding |-> ""]

\* base64url_decode: pad to a multiple of 4 and decode
base64url_decode(seg) == seg.b64

\* urlsafe_b64decode raises on a segment of 4k+1 characters, which no
\* padding completes; base64url_decode turns that into a RuntimeError
Base64Raises(seg) == seg.padding = "4k+1"

\* the vault key JWT_KEY; any other key is not the vault's
VaultKey == "vault-key"

\* crypto_client.sign(SignatureAlgorithm.rs256, sha256(signing_input))
RsaSign(key, signing_input) == [key |-> key, over |-> signing_input, flipped |-> FALSE]

\* a verification against the bytes of the header segment alone
PublicKeyVerifyHeaderOnly(signature, signing_input) ==
    signature.key = VaultKey /\ signature.over = <<signing_input[1]>> /\ ~signature.flipped

\* public_key.verify(signature, signing_input, PKCS1v15, SHA256) does not raise
PublicKeyVerify(signature, signing_input) ==
    signature.key = VaultKey /\ signature.over = signing_input /\ ~signature.flipped

\* f"{encoded_header}.{encoded_payload}.{encoded_signature}" of sign()
JwtToken(header, payload) ==
    LET encoded_header == base64url_encode(JsonDumpsObject(header))
        encoded_payload == base64url_encode(JsonDumpsObject(payload))
        signing_input == <<encoded_header, encoded_payload>>
    IN <<encoded_header, encoded_payload,
         base64url_encode(RsaSign(VaultKey, signing_input))>>

expected_issuer == JStr("https://openai-chat.xyz")
expected_audience == JStr("openai-chat-client")
allowed_scopes == {JStr("user"), JStr("admin"), JStr("super")}

\* len(sub.strip()) of the subjects used
StripLen(str) ==
    IF str = "user-1001" THEN 9 ELSE IF str = "1234567" THEN 7
    ELSE IF str = " abc " THEN 3 ELSE 0

\* verify() lines 171-196: no claim check raises
ClaimsOk(payload, now) ==
    LET exp == Get(payload, "exp")
        iat == Get(payload, "iat")
        sub == Get(payload, "sub")
    IN /\ exp.t = "int" /\ ~(now > exp.i)
       /\ iat.t = "int" /\ ~(iat.i > now)
       /\ sub.t = "str" /\ sub.s # "" /\ ~(StripLen(sub.s) < 6)
       /\ Get(payload, "iss") = expected_issuer
       /\ ~(Get(payload, "aud") # JNone /\ payload["aud"] # expected_audience)
       /\ ~("scope" \in DOMAIN payload /\ payload["scope"] \notin allowed_scopes)

\* verify() lines 139-158: three segments, alg RS256, signature verified
SignatureOk(token) ==
    /\ Len(token) = 3
    /\ ~Base64Raises(token[3]) /\ ~Base64Raises(token[1])
    /\ Get(JsonLoadsObject(base64url_decode(token[1])), "alg") = JStr("RS256")
    /\ PublicKeyVerify(base64url_decode(token[3]), <<token[1], token[2]>>)

\* the statement of verify() lines 139-196 that raises first, "" if none does
RaisedBy(token, now) ==
    IF Len(token) # 3 THEN "split"
    ELSE IF Base64Raises(token[3]) \/ Base64Raises(token[1]) THEN "base64url_decode"
    ELSE IF Get(JsonLoadsObject(base64url_decode(token[1])), "alg") # JStr("RS256") THEN "alg"
    ELSE IF ~PublicKeyVerify(base64url_decode(token[3]), <<token[1], token[2]>>)
    THEN "public_key.verify"
    ELSE IF Base64Raises(token[2]) THEN "base64url_decode"
    ELSE LET payload == JsonLoadsObject(base64url_decode(token[2]))
             exp == Get(payload, "exp")
             iat == Get(payload, "iat")
             sub == Get(payload, "sub")
         IN IF exp.t # "int" \/ now > exp.i THEN "exp"
            ELSE IF iat.t # "int" \/ iat.i > now THEN "iat"
            ELSE IF sub.t # "str" \/ sub.s = "" \/ StripLen(sub.s) < 6 THEN "sub"
            ELSE IF Get(payload, "iss") # expected_issuer THEN "iss"
            ELSE IF Get(payload, "aud") # JNone /\ payload["aud"] # expected_audience THEN "aud"
            ELSE IF "scope" \in DOMAIN payload /\ payload["scope"] \notin allowed_scopes
            THEN "scope"
            ELSE ""

\* a handler that lets the exception of the try block through
ExceptReraise(raised) == raised

\* except Exception as e: ... raise RuntimeError(<fixed message>): the
\* message, here in English; "" when nothing was raised
ExceptException(raised) == IF raised = "" THEN "" ELSE "JWT token invalid or expired"

\* entries of a cache that have not expired at time now
Live(cache, now) == {x \in cache : now < x.until}

\* verify(token) at time now: the outcome, the returned payload, the payload
\* cache afterwards
Verify(token, now) ==
    LET hits == {x \in Live(jwtPayloadCache, now) : x.token = token}
    IN IF ~jwtDebug /\ hits # {}
       THEN [outcome |-> "payload", hit |-> TRUE, cache |-> jwtPayloadCache,
             payload |-> JsonLoadsObject((CHOOSE x \in hits : TRUE).text),
             raised |-> ""]
       ELSE IF ~SignatureOk(token)
       THEN [outcome |-> "invalid", hit |-> FALSE, cache |-> jwtPayloadCache,
             payload |-> <<>>, raised |-> RaisedBy(token, now)]
       ELSE LET payload == JsonLoadsObject(base64url_decode(token[2]))
                cache == IF jwtDebug THEN jwtPayloadCache
                         ELSE {x \in jwtPayloadCache : x.token # token} \cup
                              {[token |-> token, text |-> JsonDumpsObject(payload),
                                until |-> now + PAYLOAD_CACHE_TTL]}
            IN IF ClaimsOk(payload, now)
               THEN [outcome |-> "payload", hit |-> FALSE, cache |-> cache,
                     payload |-> payload, raised |-> ""]
               ELSE [outcome |-> "invalid", hit |-> FALSE, cache |-> cache,
                     payload |-> <<>>, raised |-> RaisedBy(token, now)]

\* headers and payloads handed to sign() at time now
Rs256Header == [k \in {"alg", "typ"} |-> IF k = "alg" THEN JStr("RS256") ELSE JStr("JWT")]
Hs256Header == [Rs256Header EXCEPT !["alg"] = JStr("HS256")]
NoneHeader == [Rs256Header EXCEPT !["alg"] = JStr("none")]
Headers == {Rs256Header, Hs256Header}

GoodPayload(now) ==
    [k \in {"sub", "iat", "exp", "iss", "aud", "scope", "jti"} |->
        CASE k = "sub" -> JStr("user-1001")
          [] k = "iat" -> JInt(now)
          [] k = "exp" -> JInt(now + TimeStep)
          [] k = "iss" -> expected_issuer
          [] k = "aud" -> expected_audience
          [] k = "scope" -> JStr("user")
          [] k = "jti" -> JStr("jti-1")]
OtherAudPayload(now) == [GoodPayload(now) EXCEPT !["aud"] = JStr("other-client")]
Payloads(now) == {GoodPayload(now), OtherAudPayload(now)}

\* the payloads the token service's contract calls valid at time now
ValidPayload(payload, now) ==
    /\ Get(payload, "exp").t = "int" /\ Get(payload, "exp").i >= now
    /\ Get(payload, "iat").t = "int" /\ Get(payload, "iat").i <= now
    /\ Get(payload, "sub").t = "str" /\ StripLen(Get(payload, "sub").s) >= 6
    /\ Get(payload, "iss") = expected_issuer
    /\ Get(payload, "aud") = expected_audience
    /\ Get(payload, "scope") \in allowed_scopes

\* what a holder of a signed token can make of it without the private key
AlgNone(token) == <<base64url_encode(JsonDumpsObject(NoneHeader)), token[2], token[3]>>
FlipSignatureByte(token) ==
    <<token[1], token[2],
      base64url_encode([base64url_decode(token[3]) EXCEPT !.flipped = TRUE])>>
\* the token without its signature segment, and with that segment cut short
TwoSegments(token) == <<token[1], token[2]>>
CutSignature(token) == <<token[1], token[2], [token[3] EXCEPT !.padding = "4k+1"]>>
IssuedTokens == {x.token : x \in jwtIssued}
Presented ==
    IssuedTokens \cup {AlgNone(t) : t \in IssuedTokens}
                 \cup {FlipSignatureByte(t) : t \in IssuedTokens}
Malformed ==
    {TwoSegments(t) : t \in IssuedTokens} \cup {CutSignature(t) : t \in IssuedTokens}

NoCall == [op |-> "none", token |-> <<>>, outcome |-> "none", payload |-> <<>>,
           at |-> 0, hit |-> FALSE, raised |-> "", error |-> ""]

\* sign(header, payload): ValueError, a cached token, or a signed token
\* written to the cache
JwtSign(header, payload) ==
    /\ jwtSigns < MaxSigns
    /\ jwtSigns' = jwtSigns + 1
    /\ LET cache_key == <<header, payload>>
           hits == {x \in Live(jwtSignCache, jwtNow) : x.key = cache_key}
           jwt_token == JwtToken(header, payload)
       IN IF Get(header, "alg") # JStr("RS256")
          THEN /\ jwtLast' = [NoCall EXCEPT !.op = "sign", !.outcome = "ValueError",
                                            !.at = jwtNow]
               /\ UNCHANGED <<jwtSignCache, jwtIssued>>
          ELSE IF hits # {}
          THEN /\ jwtLast' = [NoCall EXCEPT !.op = "sign", !.outcome = "token",
                                            !.token = (CHOOSE x \in hits : TRUE).token,
                                            !.at = jwtNow, !.hit = TRUE]
               /\ jwtIssued' = jwtIssued \cup
                     {[token |-> (CHOOSE x \in hits : TRUE).token, header |-> header,
                       payload |-> payload]}
               /\ UNCHANGED jwtSignCache
          ELSE /\ jwtSignCache' = {x \in jwtSignCache : x.key # cache_key} \cup
                     {[key |-> cache_key, token |-> jwt_token,
                       until |-> jwtNow + DEFAULT_TTL]}
               /\ jwtIssued' = jwtIssued \cup
                     {[token |-> jwt_token, header |-> header, payload |-> payload]}
               /\ jwtLast' = [NoCall EXCEPT !.op = "sign", !.outcome = "token",
                                            !.token = jwt_token, !.at = jwtNow]
    /\ UNCHANGED <<jwtNow, jwtDebug, jwtPayloadCache>>
    /\ JwtOnly

\* sign(): the lock is not acquired (__enter__ raises) or the oracle fails
JwtSignRaise(header, payload) ==
    /\ jwtSigns < MaxSigns
    /\ Get(header, "alg") = JStr("RS256")
    /\ {x \in Live(jwtSignCache, jwtNow) : x.key = <<header, payload>>} = {}
    /\ jwtSigns' = jwtSigns + 1
    /\ jwtLast' = [NoCall EXCEPT !.op = "sign", !.outcome = "RuntimeError", !.at = jwtNow]
    /\ UNCHANGED <<jwtNow, jwtDebug, jwtSignCache, jwtPayloadCache, jwtIssued>>
    /\ JwtOnly

\* verify(token)
JwtVerify(token) ==
    /\ LET r == Verify(token, jwtNow)
       IN /\ jwtPayloadCache' = r.cache
          /\ jwtLast' = [op |-> "verify", token |-> token, outcome |-> r.outcome,
                         payload |-> r.payload, at |-> jwtNow, hit |-> r.hit,
                         raised |-> r.raised, error |-> ExceptException(r.raised)]
    /\ UNCHANGED <<jwtNow, jwtDebug, jwtSignCache, jwtIssued, jwtSigns>>
    /\ JwtOnly

\* verify(token) with the cache store out of reach: self.redis.get raises
\* inside the try block (the cache is read only when debug is off)
JwtVerifyStoreError(token) ==
    /\ ~jwtDebug
    /\ jwtLast' = [op |-> "verify", token |-> token, outcome |-> "invalid",
                   payload |-> <<>>, at |-> jwtNow, hit |-> FALSE,
                   raised |-> "redis.get", error |-> ExceptException("redis.get")]
    /\ UNCHANGED <<jwtNow, jwtDebug, jwtSignCache, jwtPayloadCache, jwtIssued, jwtSigns>>
    /\ JwtOnly

\* time passes; the store drops the entries whose TTL is over
JwtTick ==
    /\ jwtNow + TimeStep <= MaxTicks * TimeStep
    /\ jwtNow' = jwtNow + TimeStep
    /\ jwtSignCache' = Live(jwtSignCache, jwtNow')
    /\ jwtPayloadCache' = Live(jwtPayloadCache, jwtNow')
    /\ UNCHANGED <<jwtDebug, jwtIssued, jwtSigns, jwtLast>>
    /\ JwtOnly

JwtInit(debugs) ==
    /\ jwtNow = 0
    /\ jwtDebug \in debugs
    /\ jwtSignCache = {}
    /\ jwtPayloadCache = {}
    /\ jwtIssued = {}
    /\ jwtSigns = 0
    /\ jwtLast = NoCall

JwtNext ==
    \/ \E h \in Headers, p \in Payloads(jwtNow) : JwtSign(h, p)
    \/ \E h \in Headers, p \in Payloads(jwtNow) : JwtSignRaise(h, p)
    \/ \E t \in Presented : JwtVerify(t)
    \/ JwtTick

\* the same with malformed tokens presented, and with a cache store that can
\* be out of reach when verify() reads it
JwtOutageNext ==
    \/ JwtNext
    \/ \E t \in Malformed : JwtVerify(t)
    \/ \E t \in IssuedTokens : JwtVerifyStoreError(t)

\* del payload[k]
Without(payload, k) == [x \in DOMAIN payload \ {k} |-> payload[x]]

\* payloads that lack one of the claims aud, scope, jti
LackingPayloads(now) == {Without(GoodPayload(now), k) : k \in {"aud", "scope", "jti"}}

\* sign() and verify() with such payloads signed as well
JwtLackingNext ==
    \/ JwtNext
    \/ \E p \in LackingPayloads(jwtNow) : JwtSign(Rs256Header, p)

\* the state after construction; the lock manager is built for one strategy,
\* the process runs with one value of settings.DEBUG
(***************************************************************************)
(* Scoped acquisition: `with lock:` through BaseLock.__enter__/__exit__    *)
(* and `with lock.lock() as acquired:` through the generator that lock()   *)
(* wraps with contextlib.contextmanager.  The lock objects here are        *)
(* RedisSingleLock objects on one store; RedLockWrapper.lock() has the     *)
(* same body and inherits the same __enter__/__exit__.                     *)
(***************************************************************************)
Forms == {"with", "lock()"}

\* release only when the block returned normally
ReleaseOnReturn(acquired, raised) == acquired /\ ~raised

\* if self.acquire(): try: yield True  finally: self.release()
FinallyRelease(acquired, raised) == acquired

\* how the block is left under `with lock.lock()`: an Exception thrown into
\* the generator reaches `except Exception: ... yield False`, the generator
\* yields a second time and contextmanager raises RuntimeError in its place
LockContextExc(raised) == IF raised THEN "RuntimeError" ELSE "none"

\* self.release() of RedisSingleLock: the script, or a store error that is
\* logged and swallowed
ScopeReleased(o, err) == IF err THEN scopeStore ELSE ReleaseScript(scopeStore, Token(o))

\* entering the block: __enter__ (acquire, raise RuntimeError on False) or
\* the generator up to its first yield (acquire, yield its result)
ScopeEnter(o, form) ==
    LET set == SetNX(scopeStore, Token(o))
    IN  /\ scopeObj[o].pc = "out"
        /\ scopeStore' = set.store
        /\ scopeObj' = [scopeObj EXCEPT ![o] =
              IF form = "with" /\ ~set.ok
              THEN [form |-> form, pc |-> "left", acquired |-> FALSE,
                    released |-> FALSE, exc |-> "RuntimeError"]
              ELSE [form |-> form, pc |-> "body", acquired |-> set.ok,
                    released |-> FALSE, exc |-> "none"]]
        /\ ScopeOnly

\* the same with redis.set raising inside acquire(): acquire returns False
ScopeEnterError(o, form) ==
    /\ scopeObj[o].pc = "out"
    /\ \E applied \in BOOLEAN :
          scopeStore' = IF applied THEN SetNX(scopeStore, Token(o)).store ELSE scopeStore
    /\ scopeObj' = [scopeObj EXCEPT ![o] =
          IF form = "with"
          THEN [form |-> form, pc |-> "left", acquired |-> FALSE,
                released |-> FALSE, exc |-> "RuntimeError"]
          ELSE [form |-> form, pc |-> "body", acquired |-> FALSE,
                released |-> FALSE, exc |-> "none"]]
    /\ ScopeOnly

\* leaving the block, by return or by an exception of the body: __exit__
\* calls release() and lets the exception through; the generator runs its
\* finally clause
ScopeExit(o, raised) ==
    LET r == scopeObj[o]
        rel == IF r.form = "with" THEN TRUE ELSE FinallyRelease(r.acquired, raised)
    IN  /\ r.pc = "body"
        /\ \E err \in BOOLEAN :
              scopeStore' = IF rel THEN ScopeReleased(o, err) ELSE scopeStore
        /\ scopeObj' = [scopeObj EXCEPT ![o] =
              [r EXCEPT !.pc = "left", !.released = rel,
                        !.exc = IF r.form = "with"
                                THEN (IF raised THEN "body" ELSE "none")
                                ELSE LockContextExc(raised)]]
        /\ ScopeOnly

\* the key's EX ttl elapses
ScopeExpire ==
    /\ scopeStore # Nil
    /\ scopeStore' = Nil
    /\ UNCHANGED scopeObj
    /\ ScopeOnly

ScopeInit ==
    /\ scopeStore = Nil
    /\ scopeObj = [o \in FastObjs |-> [form |-> "none", pc |-> "out", acquired |-> FALSE,
                                       released |-> FALSE, exc |-> "none"]]

ScopeNext ==
    \/ \E o \in FastObjs, form \in Forms : ScopeEnter(o, form)
    \/ \E o \in FastObjs, form \in Forms : ScopeEnterError(o, form)
    \/ \E o \in FastObjs, raised \in BOOLEAN : ScopeExit(o, raised)
    \/ ScopeExpire

(***************************************************************************)
(* build_lock(key, ttl, strategy).  A Python argument is the record        *)
(* [type, s, n]: its type, its text (str, bytes) and its number (int,      *)
(* bool, float).                                                           *)
(***************************************************************************)
PyStr(s) == [type |-> "str", s |-> s, n |-> 0]
PyInt(n) == [type |-> "int", s |-> "", n |-> n]
PyNone == [type |-> "NoneType", s |-> "", n |-> 0]
PyBytes(s) == [type |-> "bytes", s |-> s, n |-> 0]
PyFloat(n) == [type |-> "float", s |-> "", n |-> n]
PyBool(b) == [type |-> "bool", s |-> "", n |-> IF b THEN 1 ELSE 0]

KeyArgs == {PyStr(""), PyStr("jwt:sign:1"), PyNone, PyBytes("jwt:sign:1"), PyInt(7)}
TtlArgs == {PyInt(0), PyInt(0 - 5), PyInt(1), PyInt(1500), PyInt(10000),
            PyFloat(10000), PyStr("10000"), PyNone, PyBool(TRUE)}
StrategyArgs == {PyStr("safe"), PyStr("fast"), PyStr("Safe"), PyStr(""), PyNone}

\* bool(v)
Truthy(v) ==
    IF v.type = "NoneType" THEN FALSE
    ELSE IF v.type \in {"str", "bytes"} THEN v.s # ""
    ELSE v.n # 0

\* isinstance(v, int): bool is a subclass of int
IsInstanceInt(v) == v.type \in {"int", "bool"}

\* a key is refused only for not being a str
KeyNotStr(key) == key.type # "str"

\* not key or not isinstance(key, str)
KeyRejected(key) == ~Truthy(key) \/ key.type # "str"

\* not isinstance(ttl, int) or ttl <= 0
TtlRejected(ttl) == ~IsInstanceInt(ttl) \/ ttl.n <= 0

\* strategy not in ("safe", "fast")
StrategyRejected(st) == ~(st.type = "str" /\ st.s \in {"safe", "fast"})

\* max(1, ttl // 1000)
ExpireSeconds(ttl) == IF ttl \div 1000 > 1 THEN ttl \div 1000 ELSE 1

\* lines 23-28: the three checks, in this order, each raising ValueError
BuildLockRejects(key, ttl, st) ==
    /\ KeyRejected(key) \/ TtlRejected(ttl) \/ StrategyRejected(st)
    /\ buildLast' = [op |-> "build", key |-> key, ttl |-> ttl, strategy |-> st,
                     outcome |-> "ValueError", unit |-> "none", expire |-> 0,
                     pre |-> <<lockRedisClient, redlockInstance>>]
    /\ UNCHANGED <<lockRedisClient, redlockInstance>>
    /\ BuildOnly

\* lines 30-52 with the client at hand or created: the lock object
BuildLock(key, ttl, st) ==
    /\ ~KeyRejected(key) /\ ~TtlRejected(ttl) /\ ~StrategyRejected(st)
    /\ IF st.s = "safe"
       THEN /\ redlockInstance' = TRUE
            /\ UNCHANGED lockRedisClient
            /\ buildLast' = [op |-> "build", key |-> key, ttl |-> ttl, strategy |-> st,
                             outcome |-> "RedLockWrapper", unit |-> "ms", expire |-> ttl.n,
                             pre |-> <<lockRedisClient, redlockInstance>>]
       ELSE /\ lockRedisClient' = TRUE
            /\ UNCHANGED redlockInstance
            /\ buildLast' = [op |-> "build", key |-> key, ttl |-> ttl, strategy |-> st,
                             outcome |-> "RedisSingleLock", unit |-> "s",
                             expire |-> ExpireSeconds(ttl.n),
                             pre |-> <<lockRedisClient, redlockInstance>>]
    /\ BuildOnly

\* lines 39 / 49 raise: REDLOCK_SERVERS is not configured, or the client of
\* the lock store cannot be created
BuildLockClientError(key, ttl, st) ==
    /\ ~KeyRejected(key) /\ ~TtlRejected(ttl) /\ ~StrategyRejected(st)
    /\ IF st.s = "safe" THEN ~redlockInstance ELSE ~lockRedisClient
    /\ buildLast' = [op |-> "build", key |-> key, ttl |-> ttl, strategy |-> st,
                     outcome |-> "RuntimeError", unit |-> "none", expire |-> 0,
                     pre |-> <<lockRedisClient, redlockInstance>>]
    /\ UNCHANGED <<lockRedisClient, redlockInstance>>
    /\ BuildOnly

BuildInit ==
    /\ lockRedisClient = FALSE
    /\ redlockInstance = FALSE
    /\ buildLast = [op |-> "init", key |-> PyNone, ttl |-> PyNone, strategy |-> PyNone,
                    outcome |-> "none", unit |-> "none", expire |-> 0,
                    pre |-> <<FALSE, FALSE>>]

BuildNext ==
    \/ \E key \in KeyArgs, ttl \in TtlArgs, st \in StrategyArgs : BuildLockRejects(key, ttl, st)
    \/ \E key \in KeyArgs, ttl \in TtlArgs, st \in StrategyArgs : BuildLock(key, ttl, st)
    \/ \E key \in KeyArgs, ttl \in TtlArgs, st \in StrategyArgs : BuildLockClientError(key, ttl, st)

(***************************************************************************)
(* TokenIssuerService, TokenRefreshService, TokenRevoker, LogoutService    *)
(* and JWTAuthentication over the signer, the verifier and the blacklist   *)
(* store, for one active user.  The verifier, the signer and the cache     *)
(* store are those of the section above; the clock is jwtNow.              *)
(***************************************************************************)

\* settings/base.py
JWT_ISSUER == "openai-chat.xyz"
JWT_AUDIENCE == "openai_chat_user"
JWT_ACCESS_TOKEN_LIFETIME == 3600
JWT_REFRESH_TOKEN_LIFETIME == 604800

\* jwt_token_service.HEADER
HEADER == Rs256Header

\* str(self.user.id) of the user, and get_scope_for_user(user)
UserId == "1234567"
UserScope == "user"

\* str(uuid.uuid4()): the n-th value handed out
JtiNames == <<"jti-a", "jti-b", "jti-c", "jti-d", "jti-e", "jti-f", "jti-g", "jti-h">>
Uuid4(n) == JStr(JtiNames[n])

\* bool(v) of a JSON value
JTruthy(v) ==
    CASE v.t = "none" -> FALSE
      [] v.t = "str" -> v.s # ""
      [] v.t = "int" -> v.i # 0

\* build_jwt_payload(user_id, scope, lifetime, token_type) at time now, with
\* jti the value uuid4() returns
build_jwt_payload(user_id, scope, lifetime, token_type, now, jti) ==
    [k \in {"sub", "iat", "exp", "iss", "aud", "scope", "jti", "typ"} |->
        CASE k = "sub" -> JStr(user_id)
          [] k = "iat" -> JInt(now)
          [] k = "exp" -> JInt(now + lifetime)
          [] k = "iss" -> JStr(JWT_ISSUER)
          [] k = "aud" -> JStr(JWT_AUDIENCE)
          [] k = "scope" -> JStr(scope)
          [] k = "jti" -> jti
          [] k = "typ" -> JStr(token_type)]

\* the access and the refresh token of issue_tokens() / refresh_access_token()
\* at time now, after n uuid4() calls
AccessToken(now, n) ==
    JwtToken(HEADER, build_jwt_payload(UserId, UserScope, JWT_ACCESS_TOKEN_LIFETIME,
                                       "access", now, Uuid4(n + 1)))
RefreshToken(now, n) ==
    JwtToken(HEADER, build_jwt_payload(UserId, "refresh", JWT_REFRESH_TOKEN_LIFETIME,
                                       "refresh", now, Uuid4(n + 2)))

\* the two sign() calls: each writes its token to the signed-token cache
\* (a fresh jti makes every cache key new)
SignedPair(now, n) ==
    {[key |-> <<HEADER, JsonLoadsObject(base64url_decode(t[2]))>>, token |-> t,
      until |-> now + DEFAULT_TTL] : t \in {AccessToken(now, n), RefreshToken(now, n)}}

\* is_blacklisted(jti): redis.get(key) is not None
is_blacklisted(jti, now) == \E b \in Live(tokBlacklist, now) : b.jti = jti

\* add_to_blacklist(jti, exp_timestamp): the return value and the store
\* afterwards; ok is false when the lock is not acquired or the store raises
add_to_blacklist(jti, exp, now, ok) ==
    IF exp.t # "int" \/ exp.i <= 0 THEN [ret |-> FALSE, store |-> tokBlacklist]
    ELSE IF ~ok THEN [ret |-> FALSE, store |-> tokBlacklist]
    ELSE IF is_blacklisted(jti, now) THEN [ret |-> TRUE, store |-> tokBlacklist]
    ELSE LET ttl == IF exp.i - now > 1 THEN exp.i - now ELSE 1
         IN [ret |-> TRUE,
             store |-> Live(tokBlacklist, now) \cup {[jti |-> jti, until |-> now + ttl]}]

NoPair == [access |-> <<>>, refresh |-> <<>>]
NoTok == [op |-> "none", token |-> <<>>, outcome |-> "none", jti |-> JNone,
          exp |-> JNone, typ |-> JNone, at |-> 0, pair |-> NoPair, listed |-> FALSE]

\* the tokens the services have handed out
TokTokens == {x.pair.access : x \in tokIssued} \cup {x.pair.refresh : x \in tokIssued}

\* the record of a call on token at the present time, with the claims that
\* verify() returned (none when it raised)
TokCall(op, token, r) ==
    [NoTok EXCEPT !.op = op, !.token = token, !.at = jwtNow,
                  !.jti = IF r.outcome = "payload" THEN Get(r.payload, "jti") ELSE JNone,
                  !.exp = IF r.outcome = "payload" THEN Get(r.payload, "exp") ELSE JNone,
                  !.typ = IF r.outcome = "payload" THEN Get(r.payload, "typ") ELSE JNone,
                  !.listed = r.outcome = "payload" /\
                             is_blacklisted(Get(r.payload, "jti"), jwtNow)]

\* TokenIssuerService.issue_tokens(); signs is false when a sign() raises
TokIssue(signs) ==
    /\ tokJti + 2 <= MaxJti /\ tokJti + 2 <= Len(JtiNames)
    /\ tokJti' = tokJti + 2
    /\ IF signs
       THEN LET pair == [access |-> AccessToken(jwtNow, tokJti),
                         refresh |-> RefreshToken(jwtNow, tokJti)]
            IN /\ jwtSignCache' = jwtSignCache \cup SignedPair(jwtNow, tokJti)
               /\ tokIssued' = tokIssued \cup {[pair |-> pair, from |-> <<>>]}
               /\ tokLast' = [NoTok EXCEPT !.op = "issue_tokens", !.outcome = "pair",
                                           !.at = jwtNow, !.pair = pair]
       ELSE /\ tokLast' = [NoTok EXCEPT !.op = "issue_tokens", !.outcome = "RuntimeError",
                                        !.at = jwtNow]
            /\ UNCHANGED <<jwtSignCache, tokIssued>>
    /\ UNCHANGED <<jwtNow, jwtDebug, jwtPayloadCache, tokBlacklist>>
    /\ TokOnly

\* JWTAuthentication.authenticate() of a request that carries Bearer <token>;
\* the user is active, so UserStateGuard lets the request through
TokAuthenticate(token) ==
    /\ \E r \in {Verify(token, jwtNow)} :
       LET accepted == /\ r.outcome = "payload"
                       /\ Get(r.payload, "typ") = JStr("access")
                       /\ JTruthy(Get(r.payload, "jti"))
                       /\ JTruthy(Get(r.payload, "sub"))
       IN /\ jwtPayloadCache' = r.cache
          /\ tokLast' = [TokCall("authenticate", token, r) EXCEPT
                            !.outcome = IF accepted THEN "user" ELSE "AuthenticationFailed"]
    /\ UNCHANGED <<jwtNow, jwtDebug, jwtSignCache, tokBlacklist, tokJti, tokIssued>>
    /\ TokOnly

\* TokenRefreshService(token).refresh_access_token(); ok and signs as above
TokRefresh(token, ok, signs) ==
    /\ \E r \in {Verify(token, jwtNow)} :
       LET call == TokCall("refresh_access_token", token, r)
           fields == /\ r.outcome = "payload"
                     /\ Get(r.payload, "typ") = JStr("refresh")
                     /\ JTruthy(Get(r.payload, "sub"))
                     /\ JTruthy(Get(r.payload, "jti"))
                     /\ JTruthy(Get(r.payload, "exp"))
           revoked == add_to_blacklist(Get(r.payload, "jti"), Get(r.payload, "exp"),
                                       jwtNow, ok)
           pair == [access |-> AccessToken(jwtNow, tokJti),
                    refresh |-> RefreshToken(jwtNow, tokJti)]
       IN /\ jwtPayloadCache' = r.cache
          /\ IF ~fields
             THEN /\ tokLast' = [call EXCEPT !.outcome = "ValueError"]
                  /\ UNCHANGED <<tokBlacklist, tokJti, tokIssued, jwtSignCache>>
             ELSE IF ~revoked.ret
             THEN /\ tokLast' = [call EXCEPT !.outcome = "RuntimeError"]
                  /\ UNCHANGED <<tokBlacklist, tokJti, tokIssued, jwtSignCache>>
             ELSE /\ tokJti + 2 <= MaxJti /\ tokJti + 2 <= Len(JtiNames)
                  /\ tokBlacklist' = revoked.store
                  /\ tokJti' = tokJti + 2
                  /\ IF signs
                     THEN /\ jwtSignCache' = jwtSignCache \cup SignedPair(jwtNow, tokJti)
                          /\ tokIssued' = tokIssued \cup {[pair |-> pair, from |-> token]}
                          /\ tokLast' = [call EXCEPT !.outcome = "pair", !.pair = pair]
                     ELSE /\ tokLast' = [call EXCEPT !.outcome = "RuntimeError"]
                          /\ UNCHANGED <<tokIssued, jwtSignCache>>
    /\ UNCHANGED <<jwtNow, jwtDebug>>
    /\ TokOnly

\* LogoutService(token, token_type).execute(); ok as above
TokLogout(token, ok) ==
    /\ \E r \in {Verify(token, jwtNow)} :
       LET call == TokCall("logout", token, r)
           fields == /\ r.outcome = "payload"
                     /\ JTruthy(Get(r.payload, "jti"))
                     /\ JTruthy(Get(r.payload, "exp"))
                     /\ JTruthy(Get(r.payload, "sub"))
                     /\ Get(r.payload, "exp").t = "int"
           revoked == add_to_blacklist(Get(r.payload, "jti"), Get(r.payload, "exp"),
                                       jwtNow, ok)
       IN /\ jwtPayloadCache' = r.cache
          /\ IF fields /\ revoked.ret
             THEN /\ tokBlacklist' = revoked.store
                  /\ tokLast' = [call EXCEPT !.outcome = "revoked"]
             ELSE /\ tokLast' = [call EXCEPT !.outcome = "RuntimeError"]
                  /\ UNCHANGED tokBlacklist
    /\ UNCHANGED <<jwtNow, jwtDebug, jwtSignCache, tokJti, tokIssued>>
    /\ TokOnly

\* time passes by d seconds; the stores drop the entries whose TTL is over.
\* The clock is followed over MaxTokHours access-token lifetimes, at the start
\* of each and one payload-cache TTL later.
TokTick(d) ==
    /\ jwtNow + d <= MaxTokHours * JWT_ACCESS_TOKEN_LIFETIME
    /\ (jwtNow + d) % JWT_ACCESS_TOKEN_LIFETIME <= PAYLOAD_CACHE_TTL
    /\ jwtNow' = jwtNow + d
    /\ jwtSignCache' = Live(jwtSignCache, jwtNow')
    /\ jwtPayloadCache' = Live(jwtPayloadCache, jwtNow')
    /\ tokBlacklist' = Live(tokBlacklist, jwtNow')
    /\ UNCHANGED <<jwtDebug, tokJti, tokIssued, tokLast>>
    /\ TokOnly

TokInit ==
    /\ tokBlacklist = {}
    /\ tokJti = 0
    /\ tokIssued = {}
    /\ tokLast = NoTok

TokNext ==
    \/ \E signs \in BOOLEAN : TokIssue(signs)
    \/ \E t \in TokTokens : TokAuthenticate(t)
    \/ \E t \in TokTokens, ok \in BOOLEAN, signs \in BOOLEAN : TokRefresh(t, ok, signs)
    \/ \E t \in TokTokens, ok \in BOOLEAN : TokLogout(t, ok)
    \/ \E d \in {PAYLOAD_CACHE_TTL, JWT_ACCESS_TOKEN_LIFETIME} : TokTick(d)

(***************************************************************************)
(* Concurrent AzureRS256Signer.sign(header, payload) calls with one        *)
(* RS256 header and one payload, hence one cache key and one lock key.     *)
(* RS256 signing is deterministic: every signature of this input is the    *)
(* same token.  The lock is the RedLockWrapper of build_lock(cache_key,    *)
(* ttl=1000, strategy='safe'), taken as one resource.                      *)
(***************************************************************************)
Signers == 1..NSigners

\* f"{encoded_header}.{encoded_payload}.{encoded_signature}" of the one input
TheToken == "header.payload.signature"

\* line 89, if cached_token: the cache key holds a token
CacheHit(cache) == cache.token # ""

\* a second look at the cache that never finds a token
RecheckSkipped(cache) == FALSE

\* lines 99-100, cached_token = self.redis.get(cache_key); if cached_token
RecheckHit(cache) == cache.token # ""

\* sign() lines 80-93: the alg check passes, the first look at the cache
SignBegin(c) ==
    /\ signCaller[c].pc = "idle"
    /\ signCaller' = [signCaller EXCEPT ![c] =
          IF CacheHit(signCache) THEN [pc |-> "done", out |-> signCache.token]
          ELSE [pc |-> "enter", out |-> ""]]
    /\ UNCHANGED <<signLock, signCache, signOracle>>
    /\ StampOnly

\* with build_lock(...): __enter__ acquires the lock
SignEnter(c) ==
    /\ signCaller[c].pc = "enter"
    /\ signLock = 0
    /\ signLock' = c
    /\ signCaller' = [signCaller EXCEPT ![c] = [@ EXCEPT !.pc = "locked"]]
    /\ UNCHANGED <<signCache, signOracle>>
    /\ StampOnly

\* with build_lock(...): the key stays held by another caller through the
\* retries of Redlock.lock, acquire() returns False and __enter__ raises
\* RuntimeError, outside the try block of sign()
SignEnterFail(c) ==
    /\ signCaller[c].pc = "enter"
    /\ signLock # 0
    /\ signCaller' = [signCaller EXCEPT ![c] = [pc |-> "done", out |-> "RuntimeError"]]
    /\ UNCHANGED <<signLock, signCache, signOracle>>
    /\ StampOnly

\* lines 99-101: the second look at the cache, under the lock
SignRecheck(c) ==
    /\ signCaller[c].pc = "locked"
    /\ signCaller' = [signCaller EXCEPT ![c] =
          IF RecheckHit(signCache) THEN [pc |-> "release", out |-> signCache.token]
          ELSE [@ EXCEPT !.pc = "sign"]]
    /\ UNCHANGED <<signLock, signCache, signOracle>>
    /\ StampOnly

\* lines 104-116: crypto_client.sign returns the signature
SignOracle(c) ==
    /\ signCaller[c].pc = "sign"
    /\ signOracle' = [signOracle EXCEPT !.signed = @ + 1]
    /\ signCaller' = [signCaller EXCEPT ![c] = [@ EXCEPT !.pc = "store"]]
    /\ UNCHANGED <<signLock, signCache>>
    /\ StampOnly

\* lines 112, 127-129: crypto_client.sign raises, sign() raises RuntimeError
SignOracleRaise(c) ==
    /\ signCaller[c].pc = "sign"
    /\ signCaller' = [signCaller EXCEPT ![c] = [pc |-> "release", out |-> "RuntimeError"]]
    /\ signOracle' = [signOracle EXCEPT !.raised = TRUE]
    /\ UNCHANGED <<signLock, signCache>>
    /\ StampOnly

\* lines 119-125: setex(cache_key, ttl, jwt_token), an error is only logged;
\* return jwt_token
SignSetex(c, ok) ==
    /\ signCaller[c].pc = "store"
    /\ signCache' = IF ok THEN [signCache EXCEPT !.token = TheToken] ELSE signCache
    /\ signOracle' = IF ok THEN signOracle ELSE [signOracle EXCEPT !.writeLost = TRUE]
    /\ signCaller' = [signCaller EXCEPT ![c] = [pc |-> "release", out |-> TheToken]]
    /\ UNCHANGED signLock
    /\ StampOnly

\* __exit__: release() deletes the lock key if it still holds this caller's value
SignExit(c) ==
    /\ signCaller[c].pc = "release"
    /\ signLock' = IF signLock = c THEN 0 ELSE signLock
    /\ signCaller' = [signCaller EXCEPT ![c] = [@ EXCEPT !.pc = "done"]]
    /\ UNCHANGED <<signCache, signOracle>>
    /\ StampOnly

\* the lock key's TTL (lock_ttl_ms) elapses
SignLockExpire ==
    /\ signLock # 0
    /\ signLock' = 0
    /\ signOracle' = IF signCaller[signLock].pc \in {"locked", "sign", "store"}
                     THEN [signOracle EXCEPT !.lockLost = TRUE] ELSE signOracle
    /\ UNCHANGED <<signCaller, signCache>>
    /\ StampOnly

\* the cache entry's TTL elapses
SignCacheExpire ==
    /\ CacheHit(signCache)
    /\ signCache' = [token |-> "", expired |-> TRUE]
    /\ UNCHANGED <<signCaller, signLock, signOracle>>
    /\ StampOnly

StampInit ==
    /\ signCaller = [c \in Signers |-> [pc |-> "idle", out |-> ""]]
    /\ signLock = 0
    /\ signCache = [token |-> "", expired |-> FALSE]
    /\ signOracle = [signed |-> 0, raised |-> FALSE, lockLost |-> FALSE, writeLost |-> FALSE]

StampStep(c) ==
    \/ SignBegin(c)
    \/ SignEnter(c)
    \/ SignEnterFail(c)
    \/ SignRecheck(c)
    \/ SignOracle(c)
    \/ SignOracleRaise(c)
    \/ \E ok \in BOOLEAN : SignSetex(c, ok)
    \/ SignExit(c)

StampNext ==
    \/ \E c \in Signers : StampStep(c)
    \/ SignLockExpire
    \/ SignCacheExpire

(***************************************************************************)
(* Concurrent AzureRS256Verifier(...) constructions for one key name:      *)
(* __init__ loads the public key through _load_or_cache_public_key().      *)
(* The lock is the RedLockWrapper of build_lock(lock_key, ttl=3000,        *)
(* strategy="safe"), taken as one resource.                                *)
(***************************************************************************)
Builders == 1..NBuilders

\* __init__ lines 28-35 up to the call of _load_or_cache_public_key();
\* lines 44-48: the keys, build_lock
PemBegin(c) ==
    /\ pemCaller[c].pc = "idle"
    /\ pemCaller' = [pemCaller EXCEPT ![c] =
          [pc |-> "enter", out |-> "", warm |-> pemCache, locked |-> FALSE]]
    /\ UNCHANGED <<pemLock, pemCache, pemOracle>>
    /\ PemOnly

\* line 50, with lock: __enter__ acquires the lock
PemEnter(c) ==
    /\ pemCaller[c].pc = "enter"
    /\ pemLock = 0
    /\ pemLock' = c
    /\ pemCaller' = [pemCaller EXCEPT ![c] = [@ EXCEPT !.pc = "locked", !.locked = TRUE]]
    /\ UNCHANGED <<pemCache, pemOracle>>
    /\ PemOnly

\* line 50, with lock: the key is held by another construction, acquire()
\* returns False and __enter__ raises RuntimeError out of __init__
PemEnterFail(c) ==
    /\ pemCaller[c].pc = "enter"
    /\ pemLock # 0
    /\ pemCaller' = [pemCaller EXCEPT ![c] = [@ EXCEPT !.pc = "done", !.out = "RuntimeError"]]
    /\ UNCHANGED <<pemLock, pemCache, pemOracle>>
    /\ PemOnly

\* line 51, if not force_refresh and not self.debug: force_refresh is False
\* and __init__ assigns self.debug only on line 36, after this call, so the
\* attribute read raises AttributeError; lines 52-96 are not reached
PemReadDebug(c) ==
    /\ pemCaller[c].pc = "locked"
    /\ pemCaller' = [pemCaller EXCEPT ![c] = [@ EXCEPT !.pc = "release",
                                                       !.out = "AttributeError"]]
    /\ UNCHANGED <<pemLock, pemCache, pemOracle>>
    /\ PemOnly

\* __exit__: release() deletes the lock key if it still holds this caller's
\* value; the exception leaves __init__
PemExit(c) ==
    /\ pemCaller[c].pc = "release"
    /\ pemLock' = IF pemLock = c THEN 0 ELSE pemLock
    /\ pemCaller' = [pemCaller EXCEPT ![c] = [@ EXCEPT !.pc = "done"]]
    /\ UNCHANGED <<pemCache, pemOracle>>
    /\ PemOnly

\* get_instance(): _instance is still None after a failed construction, so
\* the next call constructs again
PemAgain(c) ==
    /\ pemCaller[c].pc = "done"
    /\ pemCaller' = [pemCaller EXCEPT ![c] =
          [pc |-> "idle", out |-> "", warm |-> FALSE, locked |-> FALSE]]
    /\ UNCHANGED <<pemLock, pemCache, pemOracle>>
    /\ PemOnly

\* the lock key's TTL (3000 ms) elapses
PemLockExpire ==
    /\ pemLock # 0
    /\ pemLock' = 0
    /\ UNCHANGED <<pemCaller, pemCache, pemOracle>>
    /\ PemOnly

\* the PEM under jwt:verify:pem:<key_name> is written by the lock-free
\* verifier of verifier.py (same key, ex=3600), and its TTL elapses
PemCacheSet ==
    /\ pemCache' = ~pemCache
    /\ UNCHANGED <<pemCaller, pemLock, pemOracle>>
    /\ PemOnly

PemInit ==
    /\ pemCaller = [c \in Builders |->
                      [pc |-> "idle", out |-> "", warm |-> FALSE, locked |-> FALSE]]
    /\ pemLock = 0
    /\ pemCache = FALSE
    /\ pemOracle = 0

PemNext ==
    \/ \E c \in Builders : PemBegin(c)
    \/ \E c \in Builders : PemEnter(c)
    \/ \E c \in Builders : PemEnterFail(c)
    \/ \E c \in Builders : PemReadDebug(c)
    \/ \E c \in Builders : PemExit(c)
    \/ \E c \in Builders : PemAgain(c)
    \/ PemLockExpire
    \/ PemCacheSet

(***************************************************************************)
(* RedisNodeRegister.register() called by processes that share one         *)
(* uniqueKey (workers of one host, one MACHINE_UNIQUE_ID), one store.      *)
(* get_node_ids() calls register() once per process run.                   *)
(***************************************************************************)
Registrants == 1..NRegistrants

\* range(self.max_dc_id + 1) x range(self.max_machine_id + 1)
Slots == {<<d, m>> : d \in 0..MaxDatacenterId, m \in 0..MaxMachineId}

\* a bound path that claims the slot's marker again
LeaseRenewMarkers(markers, slot) == markers \cup {slot}

\* register() lines 35-41: the slot markers after the return of the bound
\* slot (no redis.set on this path)
BoundPathMarkers(markers, slot) == markers

\* get_node_ids() with an empty process cache calls register(), lines 32-44:
\* value = redis.get(bind_key); a binding is parsed and returned
NodeLookup(c) ==
    /\ nodeCall[c].pc = "idle"
    /\ IF nodeBind # Nil
       THEN /\ nodeCall' = [nodeCall EXCEPT ![c] =
                  [@ EXCEPT !.pc = "done", !.ret = nodeBind, !.found = TRUE]]
            /\ nodeMarker' = BoundPathMarkers(nodeMarker, nodeBind)
       ELSE /\ nodeCall' = [nodeCall EXCEPT ![c] = [@ EXCEPT !.pc = "scan", !.pos = FirstSlot]]
            /\ UNCHANGED nodeMarker
    /\ UNCHANGED <<nodeBind, nodeBound>>
    /\ NodeOnly

\* lines 47-52 at one slot of the scan: redis.set(reg_key, "1", nx=True,
\* ex=self.ttl); lines 61-62 after the last slot
NodeClaim(c) ==
    /\ nodeCall[c].pc = "scan"
    /\ LET pos == nodeCall[c].pos
       IN IF pos = Nil
          THEN /\ nodeCall' = [nodeCall EXCEPT ![c] = [@ EXCEPT !.pc = "failed"]]
               /\ UNCHANGED nodeMarker
          ELSE IF pos \notin nodeMarker
          THEN /\ nodeMarker' = nodeMarker \cup {pos}
               /\ nodeCall' = [nodeCall EXCEPT ![c] = [@ EXCEPT !.pc = "bind"]]
          ELSE /\ nodeCall' = [nodeCall EXCEPT ![c] = [@ EXCEPT !.pos = NextSlot(pos)]]
               /\ UNCHANGED nodeMarker
    /\ UNCHANGED <<nodeBind, nodeBound>>
    /\ NodeOnly

\* lines 55-60: redis.set(bind_key, "dc:machine"); return the slot
NodeBind(c) ==
    /\ nodeCall[c].pc = "bind"
    /\ nodeBind' = nodeCall[c].pos
    /\ nodeBound' = Append(nodeBound, nodeCall[c].pos)
    /\ nodeCall' = [nodeCall EXCEPT ![c] = [@ EXCEPT !.pc = "done", !.ret = nodeCall[c].pos]]
    /\ UNCHANGED nodeMarker
    /\ NodeOnly

\* the process restarts: its _NODE_IDS_CACHE is empty again
NodeRestart(c) ==
    /\ nodeCall[c].pc \in {"done", "failed"}
    /\ nodeCall[c].run < MaxRuns
    /\ nodeCall' = [nodeCall EXCEPT ![c] =
          [pc |-> "idle", pos |-> Nil, ret |-> Nil, found |-> FALSE, run |-> @.run + 1]]
    /\ UNCHANGED <<nodeMarker, nodeBind, nodeBound>>
    /\ NodeOnly

\* the TTL of a slot marker elapses
NodeMarkerExpire(slot) ==
    /\ slot \in nodeMarker
    /\ nodeMarker' = nodeMarker \ {slot}
    /\ UNCHANGED <<nodeBind, nodeCall, nodeBound>>
    /\ NodeOnly

NodeInit ==
    /\ nodeMarker = {}
    /\ nodeBind = Nil
    /\ nodeCall = [c \in Registrants |->
                     [pc |-> "idle", pos |-> Nil, ret |-> Nil, found |-> FALSE, run |-> 1]]
    /\ nodeBound = <<>>
    /\ nodeOthers = {}

\* the store after other hosts registered until every slot was taken: each
\* slot is bound to another uniqueKey and carries its marker
NodeFullInit ==
    /\ nodeMarker = Slots
    /\ nodeBind = Nil
    /\ nodeCall = [c \in Registrants |->
                     [pc |-> "idle", pos |-> Nil, ret |-> Nil, found |-> FALSE, run |-> 1]]
    /\ nodeBound = <<>>
    /\ nodeOthers = Slots

NodeNext ==
    \/ \E c \in Registrants : NodeLookup(c)
    \/ \E c \in Registrants : NodeClaim(c)
    \/ \E c \in Registrants : NodeBind(c)
    \/ \E c \in Registrants : NodeRestart(c)
    \/ \E slot \in nodeMarker : NodeMarkerExpire(slot)

(***************************************************************************)
(* get_snowflake_instance(): the lazily built Snowflake of one process,    *)
(* called by its threads.  A Snowflake instance is named by its number in  *)
(* the order of construction; 0 stands for None.                           *)
(***************************************************************************)
NoInstance == 0

\* a second check that never finds the instance
InstRecheckSkipped(instance) == FALSE

\* snowflake_id.py lines 125-126: if _snowflake_instance is not None
InstRecheckHit(instance) == instance # NoInstance

\* lines 119-120: the check without the lock
InstCall(t) ==
    /\ instThread[t].pc = "idle"
    /\ IF snowflake_instance # NoInstance
       THEN instThread' = [instThread EXCEPT ![t] = [@ EXCEPT !.pc = "done", !.ret = snowflake_instance]]
       ELSE instThread' = [instThread EXCEPT ![t] = [@ EXCEPT !.pc = "wait"]]
    /\ UNCHANGED <<instLock, snowflake_instance, instAcquired>>
    /\ InstOnly

\* line 123: with _snowflake_lock (threading.Lock: blocks until free)
InstEnter(t) ==
    /\ instThread[t].pc = "wait"
    /\ instLock = 0
    /\ instLock' = t
    /\ instThread' = [instThread EXCEPT ![t] = [@ EXCEPT !.pc = "locked"]]
    /\ UNCHANGED <<snowflake_instance, instAcquired>>
    /\ InstOnly

\* lines 125-126: the check under the lock; a hit returns and leaves the
\* with block
InstRecheck(t) ==
    /\ instThread[t].pc = "locked"
    /\ IF InstRecheckHit(snowflake_instance)
       THEN /\ instThread' = [instThread EXCEPT ![t] = [@ EXCEPT !.pc = "done", !.ret = snowflake_instance]]
            /\ instLock' = 0
            /\ UNCHANGED instAcquired
       ELSE /\ instThread' = [instThread EXCEPT ![t] = [@ EXCEPT !.pc = "acquire"]]
            /\ instAcquired' = [instAcquired EXCEPT !.begun = @ + 1]
            /\ UNCHANGED instLock
    /\ UNCHANGED snowflake_instance
    /\ InstOnly

\* lines 140-141: get_node_ids() returns and the Snowflake is built and
\* stored
InstNodeIds(t) ==
    /\ instThread[t].pc = "acquire"
    /\ instAcquired' = [instAcquired EXCEPT !.made = @ + 1]
    /\ snowflake_instance' = instAcquired.made + 1
    /\ instThread' = [instThread EXCEPT ![t] = [@ EXCEPT !.pc = "built"]]
    /\ UNCHANGED instLock
    /\ InstOnly

\* line 140: get_node_ids() raises (node_config.py line 48, 71 or 74-76);
\* the with block releases the lock and the error leaves the call
InstNodeIdsRaise(t) ==
    /\ instThread[t].pc = "acquire"
    /\ instAcquired' = [instAcquired EXCEPT !.raised = @ + 1]
    /\ instThread' = [instThread EXCEPT ![t] = [@ EXCEPT !.pc = "raised"]]
    /\ instLock' = 0
    /\ UNCHANGED snowflake_instance
    /\ InstOnly

\* line 146: return _snowflake_instance, leaving the with block
InstReturn(t) ==
    /\ instThread[t].pc = "built"
    /\ instThread' = [instThread EXCEPT ![t] = [@ EXCEPT !.pc = "done", !.ret = snowflake_instance]]
    /\ instLock' = 0
    /\ UNCHANGED <<snowflake_instance, instAcquired>>
    /\ InstOnly

\* the thread calls get_snowflake_instance() again
InstAgain(t) ==
    /\ instThread[t].pc \in {"done", "raised"}
    /\ instThread[t].calls < MaxInstCalls
    /\ instThread' = [instThread EXCEPT ![t] = [pc |-> "idle", ret |-> NoInstance, calls |-> @.calls + 1]]
    /\ UNCHANGED <<instLock, snowflake_instance, instAcquired>>
    /\ InstOnly

InstInit ==
    /\ instThread = [t \in Threads |-> [pc |-> "idle", ret |-> NoInstance, calls |-> 1]]
    /\ instLock = 0
    /\ snowflake_instance = NoInstance
    /\ instAcquired = [begun |-> 0, raised |-> 0, made |-> 0]

InstNext ==
    \/ \E t \in Threads : InstCall(t)
    \/ \E t \in Threads : InstEnter(t)
    \/ \E t \in Threads : InstRecheck(t)
    \/ \E t \in Threads : InstNodeIds(t)
    \/ \E t \in Threads : InstNodeIdsRaise(t)
    \/ \E t \in Threads : InstReturn(t)
    \/ \E t \in Threads : InstAgain(t)

(***************************************************************************)
(* IdempotencyExecutor.execute() with the EX seconds of each record it     *)
(* writes: calls made one after another for one (scope, key), each with    *)
(* its own ttl_seconds.                                                    *)
(***************************************************************************)
DEFAULT_TTL_SECONDS == 600
FAILED_TTL_SECONDS == 60

\* ttl_seconds values passed to execute(): the views pass 900 and 1800
TtlSecondsArgs == {-1, 0, 1, 30, 59, 60, 61, 600, 900, 1800}

\* execute() lines 194-195
EffectiveTtl(ttl_seconds) == IF ttl_seconds <= 0 THEN DEFAULT_TTL_SECONDS ELSE ttl_seconds

TtlAbsent == [state |-> "ABSENT", ex |-> 0]

\* execute() up to the call of func: begin(ttl_seconds) writes PENDING with
\* EX ttl on an absent key; DONE and PENDING end the call, NEW and FAILED
\* (allow_retry_after_failed) go on
TtlBegin(ttl_seconds) ==
    /\ ttlCall.pc = "idle"
    /\ ttlCall.n < MaxTtlCalls
    /\ LET ttl == EffectiveTtl(ttl_seconds)
       IN /\ ttlRec' = IF ttlRec.state = "ABSENT" THEN [state |-> "PENDING", ex |-> ttl] ELSE ttlRec
          /\ ttlCall' = [pc |-> IF ttlRec.state \in {"ABSENT", "FAILED"} THEN "func" ELSE "idle",
                         ttl_seconds |-> ttl_seconds, ttl |-> ttl, n |-> ttlCall.n + 1]
    /\ TtlOnly

\* func returned: succeed(result, ttl_seconds), redis.set(..., ex=ttl_seconds)
TtlSucceed ==
    /\ ttlCall.pc = "func"
    /\ ttlRec' = [state |-> "SUCCEEDED", ex |-> ttlCall.ttl]
    /\ ttlCall' = [ttlCall EXCEPT !.pc = "idle"]
    /\ TtlOnly

\* func raised: fail(), redis.set(..., ex=self.FAILED_TTL_SECONDS)
TtlFail ==
    /\ ttlCall.pc = "func"
    /\ ttlRec' = [state |-> "FAILED", ex |-> FAILED_TTL_SECONDS]
    /\ ttlCall' = [ttlCall EXCEPT !.pc = "idle"]
    /\ TtlOnly

\* the record's EX seconds elapse
TtlExpire ==
    /\ ttlRec # TtlAbsent
    /\ ttlRec' = TtlAbsent
    /\ UNCHANGED ttlCall
    /\ TtlOnly

TtlInit ==
    /\ ttlRec = TtlAbsent
    /\ ttlCall = [pc |-> "idle", ttl_seconds |-> 0, ttl |-> 0, n |-> 0]

TtlNext ==
    \/ \E ttl_seconds \in TtlSecondsArgs : TtlBegin(ttl_seconds)
    \/ TtlSucceed
    \/ TtlFail
    \/ TtlExpire

(***************************************************************************)
(* send_email_async_task: duplicate messages for one biz_key.  A message   *)
(* is executed, and executed again after a transient error while Celery's  *)
(* retry budget lasts; its executions do not overlap.                      *)
(***************************************************************************)
MailTasks == 1..NMailTasks

\* retry_max: int = 2
RETRY_MAX == 2

\* token = secrets.token_hex(16), of the one running execution of a message
MailToken(t) == <<"token", t>>

\* if r.exists(dk): return skipped, reason "done"
MailStart(t) ==
    /\ mailTask[t].pc = "start"
    /\ mailTask' = [mailTask EXCEPT ![t] =
          IF mailDone THEN [@ EXCEPT !.pc = "end", !.ret = "done"]
          ELSE [@ EXCEPT !.pc = "lock"]]
    /\ UNCHANGED <<mailDone, mailLock, mailSent>>
    /\ MailOnly

\* token = _acquire_lock(r, lk, lock_ttl_ms): SET lk token NX PX lock_ttl_ms;
\* if not token: return skipped, reason "locked"
MailAcquire(t) ==
    /\ mailTask[t].pc = "lock"
    /\ LET set == SetNX(mailLock, MailToken(t))
       IN /\ mailLock' = set.store
          /\ mailTask' = [mailTask EXCEPT ![t] =
                IF set.ok THEN [@ EXCEPT !.pc = "send"]
                ELSE [@ EXCEPT !.pc = "end", !.ret = "locked"]]
    /\ UNCHANGED <<mailDone, mailSent>>
    /\ MailOnly

\* res = send_email_sync(...) returns: the mail is out
MailSend(t) ==
    /\ mailTask[t].pc = "send"
    /\ mailTask' = [mailTask EXCEPT ![t] = [@ EXCEPT !.pc = "mark"]]
    /\ mailSent' = [all |-> mailSent.all + 1,
                    marked |-> IF mailDone THEN mailSent.marked + 1 ELSE mailSent.marked]
    /\ UNCHANGED <<mailDone, mailLock>>
    /\ MailOnly

\* send_email_sync raises EmailTransientError (raise self.retry(...)), or
\* EmailPermanentError / EmailSendError (return ok False)
MailSendRaise(t) ==
    /\ mailTask[t].pc = "send"
    /\ \E ret \in {"retry", "failed"} :
          mailTask' = [mailTask EXCEPT ![t] = [@ EXCEPT !.pc = "release", !.ret = ret]]
    /\ UNCHANGED <<mailDone, mailLock, mailSent>>
    /\ MailOnly

\* r.set(dk, b"1", nx=True, ex=done_ttl_seconds); a Redis error here is none
\* of the handled exceptions and leaves the task through finally
MailMarkDone(t) ==
    /\ mailTask[t].pc = "mark"
    /\ \E error \in BOOLEAN :
          /\ mailDone' = IF error THEN mailDone ELSE TRUE
          /\ mailSent' = IF ~error /\ ~mailDone
                         THEN [mailSent EXCEPT !.marked = 1] ELSE mailSent
          /\ mailTask' = [mailTask EXCEPT ![t] =
                [@ EXCEPT !.pc = "release", !.ret = IF error THEN "raised" ELSE "sent"]]
    /\ UNCHANGED mailLock
    /\ MailOnly

\* finally: if token: _release_lock(r, lk, token), errors logged; then the
\* return value or the exception leaves the task, and Celery runs the message
\* again after self.retry() while retries < max_retries
MailRelease(t) ==
    /\ mailTask[t].pc = "release"
    /\ \E error \in BOOLEAN :
          mailLock' = IF error THEN mailLock ELSE ReleaseScript(mailLock, MailToken(t))
    /\ mailTask' = [mailTask EXCEPT ![t] =
          IF @.ret = "retry" /\ @.retries < RETRY_MAX
          THEN [@ EXCEPT !.pc = "start", !.ret = "none", !.retries = @ + 1]
          ELSE [@ EXCEPT !.pc = "end"]]
    /\ UNCHANGED <<mailDone, mailSent>>
    /\ MailOnly

\* the PX ttl of the lock key elapses
MailLockExpire ==
    /\ mailLock # Nil
    /\ mailLock' = KeyExpired(mailLock)
    /\ UNCHANGED <<mailDone, mailTask, mailSent>>
    /\ MailOnly

\* the EX ttl of the done marker elapses
MailDoneExpire ==
    /\ mailDone
    /\ mailDone' = FALSE
    /\ mailSent' = [mailSent EXCEPT !.marked = 0]
    /\ UNCHANGED <<mailLock, mailTask>>
    /\ MailOnly

MailInit ==
    /\ mailDone = FALSE
    /\ mailLock = Nil
    /\ mailTask = [t \in MailTasks |-> [pc |-> "start", ret |-> "none", retries |-> 0]]
    /\ mailSent = [all |-> 0, marked |-> 0]

MailNext ==
    \/ \E t \in MailTasks : MailStart(t)
    \/ \E t \in MailTasks : MailAcquire(t)
    \/ \E t \in MailTasks : MailSend(t)
    \/ \E t \in MailTasks : MailSendRaise(t)
    \/ \E t \in MailTasks : MailMarkDone(t)
    \/ \E t \in MailTasks : MailRelease(t)
    \/ MailLockExpire
    \/ MailDoneExpire


(***************************************************************************)
(* Login with TOTP: stage one caches the pending login under a fresh       *)
(* challenge_id, stage two (verify_and_issue_token) reads it, checks the   *)
(* code, deletes it and issues the tokens.                                 *)
(***************************************************************************)
TotpCalls == 1..NTotpCalls

\* LoginService._cache_pending_login: setex(cache_key, LOGIN_TTL_SECONDS, json)
\* under challenge_id = secrets.token_urlsafe(32), returned to the client
TotpCachePending ==
    /\ totpPending = "unset"
    /\ totpPending' = "set"
    /\ UNCHANGED <<totpCall, totpIssued>>
    /\ TotpOnly

\* cache_raw = self.redis.get(cache_key); if not cache_raw: raise ValueError
TotpGet(c) ==
    /\ totpPending # "unset"
    /\ totpCall[c].pc = "start"
    /\ totpCall' = [totpCall EXCEPT ![c] =
          IF totpPending = "set" THEN [@ EXCEPT !.pc = "verify"]
          ELSE [@ EXCEPT !.pc = "end", !.outcome = "pending_missing"]]
    /\ UNCHANGED <<totpPending, totpIssued>>
    /\ TotpOnly

\* verify_login_totp(user, self.totp_code) and ensure_user_can_login(user):
\* a wrong code or a blocked user raises, and the pending entry stays
TotpVerify(c) ==
    /\ totpCall[c].pc = "verify"
    /\ \E checked \in {"ok", "bad_totp", "blocked"} :
          totpCall' = [totpCall EXCEPT ![c] =
             IF checked = "ok" THEN [@ EXCEPT !.pc = "delete"]
             ELSE [@ EXCEPT !.pc = "end", !.outcome = checked]]
    /\ UNCHANGED <<totpPending, totpIssued>>
    /\ TotpOnly

\* self.redis.delete(cache_key): the reply is not looked at, an error is logged
TotpDelete(c) ==
    /\ totpCall[c].pc = "delete"
    /\ \E error \in BOOLEAN :
          totpPending' = IF error THEN totpPending ELSE "gone"
    /\ totpCall' = [totpCall EXCEPT ![c] = [@ EXCEPT !.pc = "issue"]]
    /\ UNCHANGED totpIssued
    /\ TotpOnly

\* tokens = TokenIssuerService(user).issue_tokens(); return {**tokens, ...}
TotpIssue(c) ==
    /\ totpCall[c].pc = "issue"
    /\ totpIssued' = totpIssued + 1
    /\ totpCall' = [totpCall EXCEPT ![c] = [@ EXCEPT !.pc = "end", !.outcome = "tokens"]]
    /\ UNCHANGED totpPending
    /\ TotpOnly

\* LOGIN_TTL_SECONDS elapse
TotpPendingExpire ==
    /\ totpPending = "set"
    /\ totpPending' = "gone"
    /\ UNCHANGED <<totpCall, totpIssued>>
    /\ TotpOnly

TotpInit ==
    /\ totpPending = "unset"
    /\ totpCall = [c \in TotpCalls |-> [pc |-> "start", outcome |-> "none"]]
    /\ totpIssued = 0

TotpNext ==
    \/ TotpCachePending
    \/ \E c \in TotpCalls : TotpGet(c)
    \/ \E c \in TotpCalls : TotpVerify(c)
    \/ \E c \in TotpCalls : TotpDelete(c)
    \/ \E c \in TotpCalls : TotpIssue(c)
    \/ TotpPendingExpire


(***************************************************************************)
(* Registration confirm: _validate_and_get_cached_info against one prereg  *)
(* record and its error counter key.                                       *)
(***************************************************************************)
PreCallers == 1..NPreCallers

\* MAX_ERR_TIMES = 5
MAX_ERR_TIMES == 5

\* cached_info = self._load_prereg_info(); if not cached_info: raise
\* REGISTER_PREINFO_EXPIRED
PreLoad(c) ==
    /\ preCall[c].pc = "start"
    /\ preCall' = [preCall EXCEPT ![c] =
          IF prePresent THEN [@ EXCEPT !.pc = "compare"]
          ELSE [@ EXCEPT !.pc = "end", !.outcome = "expired"]]
    /\ UNCHANGED <<prePresent, preErr, preCompared>>
    /\ PreOnly

\* if input_code_hash != expected_hash, with the record read by PreLoad
PreCompare(c) ==
    /\ preCall[c].pc = "compare"
    /\ \E wrong \in BOOLEAN :
          /\ preCall' = [preCall EXCEPT ![c] =
                [@ EXCEPT !.pc = IF wrong THEN "incr" ELSE "clear"]]
          /\ preCompared' = IF wrong THEN preCompared + 1 ELSE 0
    /\ UNCHANGED <<prePresent, preErr>>
    /\ PreOnly

\* err_times = self._increase_err_count(...): INCR of the error key;
\* if err_times >= self.MAX_ERR_TIMES the record is to be deleted, else
\* REGISTER_VERIFY_CODE_INVALID with the remaining tries
PreIncr(c) ==
    /\ preCall[c].pc = "incr"
    /\ preErr' = preErr + 1
    /\ preCall' = [preCall EXCEPT ![c] =
          IF preErr' >= MAX_ERR_TIMES THEN [@ EXCEPT !.pc = "delete"]
          ELSE [@ EXCEPT !.pc = "end", !.outcome = "invalid"]]
    /\ UNCHANGED <<prePresent, preCompared>>
    /\ PreOnly

\* self.redis.delete(self._key_prereg()), except Exception: pass; raise
\* REGISTER_VERIFY_CODE_LIMIT
PreDelete(c) ==
    /\ preCall[c].pc = "delete"
    /\ \E error \in BOOLEAN :
          prePresent' = IF error THEN prePresent ELSE FALSE
    /\ preCall' = [preCall EXCEPT ![c] = [@ EXCEPT !.pc = "end", !.outcome = "limit"]]
    /\ UNCHANGED <<preErr, preCompared>>
    /\ PreOnly

\* the code matched: self.redis.delete(self._key_err()); return cached_info
PreClearErr(c) ==
    /\ preCall[c].pc = "clear"
    /\ preErr' = 0
    /\ preCall' = [preCall EXCEPT ![c] = [@ EXCEPT !.pc = "end", !.outcome = "valid"]]
    /\ UNCHANGED <<prePresent, preCompared>>
    /\ PreOnly

\* the client sends its next confirm request
PreAgain(c) ==
    /\ preCall[c].pc = "end"
    /\ preCall[c].n < MaxPreCalls
    /\ preCall' = [preCall EXCEPT ![c] =
          [@ EXCEPT !.pc = "start", !.outcome = "none", !.n = @ + 1]]
    /\ UNCHANGED <<prePresent, preErr, preCompared>>
    /\ PreOnly

\* the TTL of the prereg record elapses
PreExpire ==
    /\ prePresent
    /\ prePresent' = FALSE
    /\ UNCHANGED <<preErr, preCall, preCompared>>
    /\ PreOnly

PreInit ==
    /\ prePresent = TRUE
    /\ preErr = 0
    /\ preCall = [c \in PreCallers |-> [pc |-> "start", outcome |-> "none", n |-> 1]]
    /\ preCompared = 0

PreNext ==
    \/ \E c \in PreCallers : PreLoad(c)
    \/ \E c \in PreCallers : PreCompare(c)
    \/ \E c \in PreCallers : PreIncr(c)
    \/ \E c \in PreCallers : PreDelete(c)
    \/ \E c \in PreCallers : PreClearErr(c)
    \/ \E c \in PreCallers : PreAgain(c)
    \/ PreExpire


InitBut(strategies, debugs) ==
    /\ strategy \in strategies
    /\ FastInit /\ SafeInit /\ IdemInit /\ SnowInit /\ RegInit /\ JwtInit(debugs)
    /\ ScopeInit /\ BuildInit
    /\ TokInit /\ StampInit /\ PemInit /\ InstInit
    /\ TtlInit /\ MailInit /\ TotpInit /\ PreInit

InitWith(strategies, debugs) == InitBut(strategies, debugs) /\ NodeInit

Init == InitWith({"fast"}, {FALSE})
LockInit == InitWith({"fast", "safe"}, {FALSE})
\* every slot is taken when the registrants arrive
InitFull == InitBut({"fast"}, {FALSE}) /\ NodeFullInit
JwtBothInit == InitWith({"fast"}, {FALSE, TRUE})

SpecLock == LockInit /\ [][LockNext]_vars
SpecIdem == Init /\ [][IdemNext]_vars
SpecSnow == Init /\ [][SnowNext]_vars
SpecReg == Init /\ [][RegNext]_vars
SpecJwt == JwtBothInit /\ [][JwtNext]_vars
SpecJwtOutage == JwtBothInit /\ [][JwtOutageNext]_vars
SpecJwtLacking == JwtBothInit /\ [][JwtLackingNext]_vars
SpecScope == Init /\ [][ScopeNext]_vars
SpecBuild == Init /\ [][BuildNext]_vars
SpecTok == JwtBothInit /\ [][TokNext]_vars
SpecStamp == Init /\ [][StampNext]_vars
SpecPem == Init /\ [][PemNext]_vars
SpecNode == Init /\ [][NodeNext]_vars
SpecNodeFull == InitFull /\ [][NodeNext]_vars
SpecInst == Init /\ [][InstNext]_vars
SpecTtl == Init /\ [][TtlNext]_vars
SpecMail == Init /\ [][MailNext]_vars
SpecTotp == Init /\ [][TotpNext]_vars
SpecPre == Init /\ [][PreNext]_vars
SpecIdemCrash == Init /\ [][IdemCrashNext]_vars
SpecIdemConflict == Init /\ [][IdemConflictNext]_vars
\* time passes: the store removes a record whose TTL has elapsed
SpecIdemCrashFair == SpecIdemCrash /\ WF_vars(IdemExpire)
\* time passes: each lock server removes a key whose ttl has elapsed
SpecLockLeft == LockInit /\ [][LockLeftNext]_vars
SpecLockLeftFair ==
    SpecLockLeft /\ WF_vars(FastExpire) /\ \A s \in Servers : WF_vars(SafeExpire(s))
\* every sign() call that has begun goes on: a thread that runs is scheduled
SpecStampFair == SpecStamp /\ \A c \in Signers : WF_vars(StampStep(c))

(***************************************************************************)
(* Claims                                                                  *)
(***************************************************************************)

\* C1: for one key and one strategy, two acquire() calls never both return
\* true: at most one lock object holds the key (acquired, not released, its
\* key not expired) at any time, under Fast and under Safe.
C1_MutualExclusion ==
    /\ Cardinality(FastHeld) <= 1
    /\ Cardinality(SafeHeld) <= 1

\* two owners raced for the key on the quorum servers: one holds it, the
\* other was refused
C1_Witness ==
    /\ safeState["a"] = "held" /\ safeObj["a"].k = 1
    /\ safeState["b"] = "failed" /\ safeObj["b"].k = 1

\* C2: a release() by an owner whose token is no longer the stored value
\* leaves the store as it is, and every holder's token is still stored.
C2_StaleReleaseNoOp ==
    /\ (fastLast.op = "release" /\ fastLast.pre # Token(fastLast.o))
          => fastStore = fastLast.pre
    /\ \A o \in FastHeld : fastStore = Token(o)

\* an owner whose lock expired releases while another owner holds the key
C2_Witness ==
    /\ fastLast.op = "release" /\ fastLast.was = "expired"
    /\ fastLast.pre # Nil /\ fastLast.pre # Token(fastLast.o)
    /\ \E o \in FastHeld : o # fastLast.o /\ fastStore = Token(o)

IdemBegun == {c \in Callers : idemCaller[c].action # "none"}
IdemNew == {c \in Callers : idemCaller[c].action = "NEW"}
\* the calls that were given the permission to run func and have not yet
\* written its outcome
IdemPermitted == {c \in Callers : idemCaller[c].pc \in {"run", "infunc", "succeed", "fail"}}

\* C3: of the begin() calls made for a key whose record was absent (no TTL
\* expiry and no fail() in between), exactly one returns NEW and every
\* other one returns PENDING or DONE.
C3_ExactlyOneNew ==
    (~idemExpired /\ ~idemFailed) =>
        /\ Cardinality(IdemNew) <= 1
        /\ (IdemBegun # {} => Cardinality(IdemNew) = 1)
        /\ \A c \in IdemBegun \ IdemNew : idemCaller[c].action \in {"PENDING", "DONE"}

\* every caller has called begin(): one NEW, the others PENDING or DONE
C3_Witness ==
    /\ ~idemExpired /\ ~idemFailed
    /\ IdemBegun = Callers
    /\ \E c \in Callers : idemCaller[c].action = "PENDING"
    /\ \E c \in Callers : idemCaller[c].action = "DONE"

\* C4: at any time at most one caller holds an execute permission (its
\* begin() returned NEW or FAILED and it has not finished), while the record
\* has not expired.
C4_OnePermissionAtATime ==
    ~idemExpired => Cardinality(IdemPermitted) <= 1

\* C5: while no record expired and no execution failed func is invoked at
\* most once, and a call that replays the cached record returns the result
\* the first call returned.
C5_ReplayIdentical ==
    /\ (~idemExpired /\ ~idemFailed) => idemFuncCalls <= 1
    /\ \A c \in Callers :
          (idemCaller[c].action = "DONE" /\ idemCaller[c].outcome = "returned")
              => idemCaller[c].out = idemCaller[c].orig

\* C6: every ID next_id() returns is greater than every ID returned before
\* it, as an integer and as the pair (timestamp, sequence), whichever thread
\* asked and whether or not the sequence wrapped; so no ID repeats.
C6_StrictlyIncreasing ==
    (snowLast.id # NoId /\ snowLast.prev # NoId) =>
        /\ snowLast.id > snowLast.prev
        /\ LET ts(id) == id \div (2 ^ SNOWFLAKE_TIMESTAMP_SHIFT)
               seq(id) == id % (SNOWFLAKE_MAX_SEQUENCE + 1)
           IN \/ ts(snowLast.id) > ts(snowLast.prev)
              \/ /\ ts(snowLast.id) = ts(snowLast.prev)
                 /\ seq(snowLast.id) > seq(snowLast.prev)

\* the 4096th call of one millisecond waited for the next one
C6_Witness ==
    /\ snowLast.how = "waited"
    /\ snowLast.prev # NoId
    /\ snowLast.prev % (SNOWFLAKE_MAX_SEQUENCE + 1) = SNOWFLAKE_MAX_SEQUENCE
    /\ snowLast.id % (SNOWFLAKE_MAX_SEQUENCE + 1) = 0

\* C7: no two register() callers with different uniqueKeys hold the same
\* (datacenter_id, machine_id).
C7_DistinctSlots ==
    \A p, q \in Procs :
        (p # q /\ regProc[p].node # Nil /\ regProc[q].node # Nil)
            => regProc[p].node # regProc[q].node

\* C8: the marker of a bound slot is in the store for good, and at most one
\* uniqueKey is bound to any slot.
C8_MarkerPermanent ==
    /\ \A k \in UniqueKeys : regBind[k] # Nil => Marked(regBind[k])
    /\ \A k1, k2 \in UniqueKeys :
          (k1 # k2 /\ regBind[k1] # Nil) => regBind[k1] # regBind[k2]

\* the token of the last verify() call, decoded
LastHeader == JsonLoadsObject(base64url_decode(jwtLast.token[1]))
LastPayload == JsonLoadsObject(base64url_decode(jwtLast.token[2]))
LastSigned == {x \in jwtIssued : x.token = jwtLast.token}

C10_RejectsInvalid ==
    (jwtLast.op = "verify" /\ jwtLast.outcome = "payload") =>
        /\ Get(LastHeader, "alg") # JStr("none")
        /\ ~base64url_decode(jwtLast.token[3]).flipped
        /\ ~(Get(LastPayload, "exp").i < jwtLast.at)
        /\ Get(LastPayload, "aud") = expected_audience

\* C11: verify() returns no payload at a time after the token's exp, and no
\* payload cache entry lives beyond the exp of the payload it holds.
C11_NoPayloadAfterExp ==
    /\ (jwtLast.op = "verify" /\ jwtLast.outcome = "payload")
          => ~(Get(LastPayload, "exp").i < jwtLast.at)
    /\ \A x \in jwtPayloadCache :
          x.until - 1 <= Get(JsonLoadsObject(x.text), "exp").i


\* C12: in both scoped forms, a block that was entered with the lock acquired
\* is never left, by return or by exception, without release() having run.
C12_ReleaseOnEveryExit ==
    \A o \in FastObjs :
        (scopeObj[o].pc = "left" /\ scopeObj[o].acquired) => scopeObj[o].released

\* both forms left by an exception after a successful acquisition
C12_Witness ==
    \E o1, o2 \in FastObjs :
        /\ scopeObj[o1].form = "with" /\ scopeObj[o1].pc = "left"
        /\ scopeObj[o1].acquired /\ scopeObj[o1].exc = "body"
        /\ scopeObj[o2].form = "lock()" /\ scopeObj[o2].pc = "left"
        /\ scopeObj[o2].acquired /\ scopeObj[o2].exc = "RuntimeError"

\* C13: a next_id() call that reads a clock below last_timestamp ends by
\* raising: it returns no ID and leaves last_timestamp and sequence as they
\* were; the first ID returned after such a call is above the last ID
\* returned before it.
C13_BackwardsRaises ==
    [][ /\ (snowPc = "locked" /\ snowClock < last_timestamp /\ snowLock' = 0)
            => /\ snowLast'.how = "raised"
               /\ snowLast'.id = snowLast.id /\ snowLast'.prev = snowLast.prev
               /\ last_timestamp' = last_timestamp
               /\ sequence' = sequence
        /\ (snowLast.how = "raised" /\ snowLast'.how # "raised")
            => /\ snowLast'.prev = snowLast.id
               /\ snowLast'.id > snowLast.id
               /\ last_timestamp' >= last_timestamp ]_vars

\* a call has raised, the clock has caught up, and the next call is inside
C13_Witness ==
    /\ snowLast.how = "raised"
    /\ snowLast.id # NoId
    /\ snowPc = "locked"
    /\ snowClock >= last_timestamp

\* C14: a build_lock call whose key is not a non-empty string, whose ttl is
\* not a positive integer, or whose strategy is neither "safe" nor "fast"
\* ends with the parameter error: no lock object, and no store client
\* created by the call.
C14_InvalidArgumentsRejected ==
    LET key == buildLast.key
        ttl == buildLast.ttl
        st == buildLast.strategy
        nonEmptyString == key.type = "str" /\ key.s # ""
        positiveInteger == ttl.type \in {"int", "bool"} /\ ttl.n >= 1
        knownStrategy == st = PyStr("safe") \/ st = PyStr("fast")
    IN  (buildLast.op = "build" /\ ~(nonEmptyString /\ positiveInteger /\ knownStrategy))
            => /\ buildLast.outcome = "ValueError"
               /\ <<lockRedisClient, redlockInstance>> = buildLast.pre

\* an empty key with a good ttl and a good strategy was refused
C14_Witness ==
    /\ buildLast.op = "build"
    /\ buildLast.key = PyStr("")
    /\ buildLast.ttl = PyInt(1500)
    /\ buildLast.strategy = PyStr("fast")
    /\ buildLast.outcome = "ValueError"
    /\ ~lockRedisClient

\* C15: on the node (datacenter 3, machine 7), the call that follows the
\* first call of a millisecond within that millisecond returns sequence 1
\* after sequence 0; the two IDs are equal above the low 12 bits, where bits
\* 22 and up hold the timestamp, bits 17-21 the datacenter and bits 12-16 the
\* machine.
C15_SameMillisecondLayout ==
    LET seq(id) == id % (2 ^ 12)
        machine(id) == (id \div (2 ^ 12)) % (2 ^ 5)
        datacenter(id) == (id \div (2 ^ 17)) % (2 ^ 5)
        timestamp(id) == id \div (2 ^ 22)
    IN  (snowLast.how = "same_ms" /\ seq(snowLast.prev) = 0)
            => /\ seq(snowLast.id) = 1
               /\ snowLast.id \div (2 ^ 12) = snowLast.prev \div (2 ^ 12)
               /\ timestamp(snowLast.id) = last_timestamp
               /\ timestamp(snowLast.prev) = last_timestamp
               /\ datacenter(snowLast.id) = 3 /\ datacenter(snowLast.prev) = 3
               /\ machine(snowLast.id) = 7 /\ machine(snowLast.prev) = 7

\* the second call of a millisecond has returned
C15_Witness ==
    /\ snowLast.how = "same_ms"
    /\ snowLast.prev # NoId
    /\ snowLast.prev % (2 ^ 12) = 0
    /\ snowLast.id = snowLast.prev + 1

\* C16: whatever statement of verify() raised (the split into segments, a
\* base64url decoding, the alg check, the signature verification, a claim
\* check, the read of the store), the caller sees the one error with the
\* one fixed message, and no payload.
C16_OneFailureOutcome ==
    (jwtLast.op = "verify" /\ jwtLast.outcome # "payload")
        => /\ jwtLast.raised # ""
           /\ jwtLast.error = "JWT token invalid or expired"
           /\ jwtLast.payload = <<>>

\* a correctly signed token was refused by the audience check
C16_Witness ==
    /\ jwtLast.op = "verify" /\ jwtLast.outcome = "invalid"
    /\ jwtLast.raised = "aud"
    /\ jwtLast.error = "JWT token invalid or expired"

\* C17: no acquire() and no release() lets an exception through to its
\* caller, under either strategy; an acquire() that met a store error
\* returns false: the Fast one directly, the Safe one without taking the
\* lock object.
C17_StoreErrorsNeverRaise ==
    [][ /\ lockEscaped' = {}
        /\ fastLast'.op = "acquire_error" => ~fastLast'.ret
        /\ \A o \in SafeObjs :
              (safeObj[o].pc = "locking" /\ safeObj[o].err /\ safeObj'[o].pc = "idle")
                  => /\ safeObj'[o].lock = safeObj[o].lock
                     /\ safeState'[o] = IF safeState[o] = "held" THEN "held" ELSE "failed"
      ]_vars

\* the release script of a held Fast lock met a store error
C17_Witness ==
    /\ fastLast.op = "release_error"
    /\ fastLast.was = "held"
    /\ fastStore = Token(fastLast.o)
    /\ lockEscaped = {}

C19_RecordTransitions ==
    [][ \/ idemRec'.state = idemRec.state
        \/ idemRec'.state = "ABSENT"
        \/ <<idemRec.state, idemRec'.state>> \in
              {<<"ABSENT", "PENDING">>, <<"PENDING", "SUCCEEDED">>,
               <<"PENDING", "FAILED">>, <<"FAILED", "PENDING">>}
      ]_vars

\* C20: at most one execute() call of the (scope, key) is inside func at a
\* time, and func has returned (its side effect done) in at most one call.
C20_FuncAtMostOnce ==
    /\ Cardinality({c \in Callers : idemCaller[c].pc = "infunc"}) <= 1
    /\ Cardinality({c \in Callers : idemCaller[c].res # NoJson}) <= 1


\* C21: a token whose jti is on the blacklist (put there by
\* LogoutService.execute or by a refresh) and whose exp has not passed is
\* accepted neither by JWTAuthentication.authenticate nor by
\* refresh_access_token, and a refresh token yields a new pair at most once.
C21_BlacklistedRejected ==
    /\ (tokLast.op \in {"authenticate", "refresh_access_token"} /\ tokLast.listed)
          => tokLast.outcome \notin {"user", "pair"}
    /\ \A t \in TokTokens : Cardinality({x \in tokIssued : x.from = t}) <= 1


\* C22: the payload cache holds only payloads that passed every claim check
\* of the verify() call that wrote them, and a token that fails a claim
\* check (exp, sub, iss, aud, scope) is given no payload, by the call that
\* finds the failure and by the calls that come after it.
C22_CacheHoldsVerifiedOnly ==
    /\ \A x \in jwtPayloadCache :
          ClaimsOk(JsonLoadsObject(x.text), x.until - PAYLOAD_CACHE_TTL)
    /\ (jwtLast.op = "verify" /\ jwtLast.outcome = "payload")
          => ClaimsOk(jwtLast.payload, jwtLast.at)


\* C23: verify() returns a payload only if exp is not in the past, iat is
\* not in the future, sub is a string of the minimum length, iss is the
\* expected issuer, aud is the expected audience, scope is in the allow-list
\* and jti is present; a token without aud, scope or jti gets no payload.
C23_PayloadOnlyIfAllChecks ==
    (jwtLast.op = "verify" /\ jwtLast.outcome = "payload") =>
        /\ ValidPayload(jwtLast.payload, jwtLast.at)
        /\ Get(jwtLast.payload, "jti").t = "str" /\ Get(jwtLast.payload, "jti").s # ""


\* C24: while a token of a pair that issue_tokens() returned is unexpired
\* and its jti is not blacklisted, verify() accepts it: the access token
\* passes verify(), and so does the refresh token inside
\* refresh_access_token(), which then returns a new pair.
C24_IssuedTokensAccepted ==
    \A x \in tokIssued : \A t \in {x.pair.access, x.pair.refresh} :
        LET payload == JsonLoadsObject(base64url_decode(t[2]))
        IN (x.from = <<>> /\ jwtNow <= payload["exp"].i
                          /\ ~is_blacklisted(payload["jti"], jwtNow))
              => Verify(t, jwtNow).outcome = "payload"


C26_AllReturnTheToken ==
    <>[](signOracle.raised \/ \A c \in Signers : signCaller[c].out = TheToken)


\* C27: a verifier construction that starts with the PEM cached loads the
\* key from the cache alone: it takes no lock, the oracle is not called, and
\* it does not fail, however many constructions run at once.
C27_WarmLoadFromCacheAlone ==
    /\ pemOracle = 0
    /\ \A c \in Builders : pemCaller[c].warm =>
          /\ ~pemCaller[c].locked
          /\ pemCaller[c].out \notin {"RuntimeError", "AttributeError"}


\* C28: the register() calls that use one uniqueKey all return the same
\* slot, and the binding of that uniqueKey is written once: it never takes
\* a second value and a second slot is never bound.
C28_OneBindingPerKey ==
    /\ \A c, d \in Registrants :
          (nodeCall[c].pc = "done" /\ nodeCall[d].pc = "done")
              => nodeCall[c].ret = nodeCall[d].ret
    /\ Len(nodeBound) <= 1

C30_OneInstancePerProcess ==
    /\ instAcquired.made <= 1
    /\ instAcquired.begun <= instAcquired.raised + 1
    /\ (snowflake_instance # NoInstance) <=> (instAcquired.made = 1)
    /\ \A t \in Threads :
          /\ instThread[t].pc = "done"
                => instThread[t].ret = snowflake_instance /\ instThread[t].ret # NoInstance
          /\ instThread[t].pc = "raised"
                => instThread[t].ret = NoInstance /\ instLock # t
    /\ (instAcquired.made = 0 /\ \A t \in Threads : instThread[t].pc \in {"idle", "wait", "done", "raised"})
          => instLock = 0

\* an acquisition raised and its caller got the error; a later call
\* acquired again and succeeded, and two threads hold the one instance
C30_Witness ==
    /\ instAcquired.raised >= 1
    /\ instAcquired.begun >= 2
    /\ instAcquired.made = 1
    /\ \E t, u \in Threads :
          /\ t # u
          /\ instThread[t].pc = "done" /\ instThread[u].pc = "done"
          /\ instThread[t].ret = instThread[u].ret


\* C31: while every slot is held by another uniqueKey and this uniqueKey
\* has no binding, register() writes nothing to the store (no marker, no
\* binding), never gets a slot, and a scan that has passed the last slot
\* ends in the fatal error.
C31_ExhaustedRaisesAndWritesNothing ==
    [][(nodeOthers = Slots /\ nodeBind = Nil)
          => /\ nodeMarker' \subseteq nodeMarker
             /\ nodeBind' = Nil
             /\ \A c \in Registrants :
                   /\ nodeCall'[c].pc # "bind"
                   /\ (nodeCall[c].pc = "scan" /\ nodeCall[c].pos = Nil)
                         => nodeCall'[c].pc \in {"scan", "failed"}]_vars


C33_FailedTtlShorter ==
    /\ ttlRec.state = "SUCCEEDED" => FAILED_TTL_SECONDS < ttlRec.ex
    /\ ttlRec.state = "FAILED" => ttlRec.ex < EffectiveTtl(ttlCall.ttl_seconds)


\* the record is the PENDING one of an executor that crashed, and no other
\* call is about to write the record
IdemOrphaned ==
    /\ idemRec.state = "PENDING"
    /\ \E c \in Callers : idemCaller[c].pc = "crashed"
    /\ \A c \in Callers : idemCaller[c].pc \notin {"run", "infunc", "succeed", "fail"}

\* C34: a PENDING record left by an executor that crashed after begin()
\* returned NEW is gone from the store in the end, and a begin() that finds
\* the key absent returns NEW.
C34_OrphanedPendingExpires ==
    /\ IdemOrphaned ~> (idemRec = Absent)
    /\ [][\A c \in Callers :
             (idemRec = Absent /\ idemCaller[c].pc = "idle" /\ idemCaller'[c].pc # "idle")
                => idemCaller'[c].action = "NEW" /\ idemCaller'[c].pc = "run"]_vars

\* an executor crashed holding NEW; after the record expired another
\* execute() got NEW for the key
C34_Witness ==
    \E c, d \in Callers :
        /\ c # d
        /\ idemCaller[c].pc = "crashed" /\ idemCaller[c].action = "NEW"
        /\ idemCaller[d].action = "NEW" /\ idemCaller[d].pc = "run"
        /\ idemExpired /\ ~idemFailed


\* C35: an execute() whose begin() finds a stored value that is no record
\* with a known state ends with IdempotencyKeyConflictError, an outcome of
\* its own (PENDING and FAILED end in IdempotencyInProgressError), without
\* an invocation of func and with the stored value as it was.
C35_ConflictLeavesValue ==
    [][\A c \in Callers :
          (idemRec \in Undecodable /\ idemCaller[c].pc = "idle" /\ idemCaller'[c].pc # "idle")
             => /\ idemCaller'[c].pc = "done"
                /\ idemCaller'[c].action = "CONFLICT" /\ idemCaller'[c].outcome = "conflict"
                /\ idemRec' = idemRec
                /\ idemFuncCalls' = idemFuncCalls]_vars

\* an execute() ended in the conflict on a value that is still stored, and
\* func has not run for the key
C35_Witness ==
    \E c \in Callers :
        /\ idemCaller[c].outcome = "conflict"
        /\ idemRec \in Undecodable
        /\ idemFuncCalls = 0


\* C36: a lock that build_lock returns for a ttl of t milliseconds writes
\* its key with an expiry of t milliseconds: the Fast lock's EX seconds
\* times 1000, like the Safe lock's PX milliseconds, are the ttl passed.
C36_ExpiryEqualsTtl ==
    /\ buildLast.outcome = "RedisSingleLock"
          => buildLast.unit = "s" /\ buildLast.expire * 1000 = buildLast.ttl.n
    /\ buildLast.outcome = "RedLockWrapper"
          => buildLast.unit = "ms" /\ buildLast.expire = buildLast.ttl.n


C38_OneSendPerDoneMarker == mailSent.marked <= 1

\* C39: one challenge_id yields tokens at most once: of all the
\* verify_and_issue_token() calls made with it, at most one issues tokens,
\* and a call ends with tokens only if no other call does.
C39_ChallengeIssuesOnce ==
    /\ totpIssued <= 1
    /\ Cardinality({c \in TotpCalls : totpCall[c].outcome = "tokens"}) <= 1

\* C40: against one prereg record no more than MAX_ERR_TIMES wrong guesses
\* in a row are compared with verify_code_hash, whatever the interleaving
\* of the confirm requests.
C40_AtMostMaxErrTimesCompared == preCompared <= MAX_ERR_TIMES
====
